---- MODULE Spec2Model ----
(***************************************************************************)
(* Model of the repository static-analysis engine of wiki-generation-be:   *)
(* src/src/analyzer/repo_analyzer.py (build_repo_model and the helpers it  *)
(* calls).                                                                 *)
(*                                                                         *)
(* Text is modelled as it is in the program: a Python str is a sequence of *)
(* one-character strings, a pathlib path is the sequence of its parts, and *)
(* str(path) joins the parts with "/".  None is a value of its own.        *)
(***************************************************************************)
EXTENDS Integers, Sequences, FiniteSets, TLC

\* ------------------------------------------------------------------ text

\* Python's None: a value no str of the model is equal to.
None == <<"None">>

UpperChars == <<"A","B","C","D","E","F","G","H","I","J","K","L","M",
                "N","O","P","Q","R","S","T","U","V","W","X","Y","Z">>
LowerChars == <<"a","b","c","d","e","f","g","h","i","j","k","l","m",
                "n","o","p","q","r","s","t","u","v","w","x","y","z">>
DigitChars == {"0","1","2","3","4","5","6","7","8","9"}

\* regex \w and \s on the characters the model's texts are written in
IsWordChar(c) ==
    \/ \E i \in 1..26 : c = UpperChars[i] \/ c = LowerChars[i]
    \/ c \in DigitChars
    \/ c = "_"
IsSpaceChar(c) == c \in {" ", "\t", "\n", "\r"}

\* str.lower() of one character
LowerChar(c) ==
    IF \E i \in 1..26 : c = UpperChars[i]
    THEN LowerChars[CHOOSE i \in 1..26 : c = UpperChars[i]]
    ELSE c

\* a lower() that leaves the text as it is
StrKeepCase(s) == s

\* str.lower()
StrLower(s) == [i \in 1..Len(s) |-> LowerChar(s[i])]

\* str.startswith(p), str.endswith(p)
StartsWith(s, p) == Len(s) >= Len(p) /\ SubSeq(s, 1, Len(p)) = p
EndsWith(s, p) == Len(s) >= Len(p) /\ SubSeq(s, Len(s) - Len(p) + 1, Len(s)) = p

\* s[i:] with a 1-based i
From(s, i) == SubSeq(s, i, Len(s))

\* str.rfind(c) + 1: the last position of character c in s, 0 when absent
RFind(s, c) ==
    IF \E i \in 1..Len(s) : s[i] = c
    THEN CHOOSE i \in 1..Len(s) : s[i] = c /\ \A j \in (i+1)..Len(s) : s[j] # c
    ELSE 0

\* str.find(c) + 1: the first position of character c in s, 0 when absent
Find(s, c) ==
    IF \E i \in 1..Len(s) : s[i] = c
    THEN CHOOSE i \in 1..Len(s) : s[i] = c /\ \A j \in 1..(i-1) : s[j] # c
    ELSE 0

\* str.split(c) for a one-character separator c: always at least one field
RECURSIVE Split(_, _)
Split(s, c) ==
    LET i == Find(s, c)
    IN  IF i = 0 THEN <<s>>
        ELSE <<SubSeq(s, 1, i - 1)>> \o Split(From(s, i + 1), c)

\* c.join(parts)
RECURSIVE Join(_, _)
Join(parts, c) ==
    IF Len(parts) = 0 THEN <<>>
    ELSE IF Len(parts) = 1 THEN parts[1]
    ELSE parts[1] \o <<c>> \o Join(Tail(parts), c)

\* str.lstrip(chars), str.rstrip(chars), str.strip(chars) for a set of characters
RECURSIVE LStripSet(_, _)
LStripSet(s, cs) ==
    IF Len(s) > 0 /\ s[1] \in cs THEN LStripSet(Tail(s), cs) ELSE s
RECURSIVE RStripSet(_, _)
RStripSet(s, cs) ==
    IF Len(s) > 0 /\ s[Len(s)] \in cs THEN RStripSet(SubSeq(s, 1, Len(s) - 1), cs) ELSE s
StripSet(s, cs) == RStripSet(LStripSet(s, cs), cs)

\* str.strip() with no argument: white space
WhiteSpace == {" ", "\t", "\n", "\r"}
Strip(s) == StripSet(s, WhiteSpace)

\* ------------------------------------------------------------------ paths
\* A pathlib path is the sequence of its parts (names); an absolute path is
\* the sequence of the names below "/".

\* PurePath.name: the final part, "" for the root "/" or the empty path
PathName(p) == IF Len(p) = 0 THEN <<>> ELSE p[Len(p)]

\* PurePath.parent: the parent of "/" is "/"
PathParent(p) == IF Len(p) = 0 THEN p ELSE SubSeq(p, 1, Len(p) - 1)

\* PurePath.suffix: the final part from its last dot, when that dot is
\* neither its first nor its last character
Suffix(name) ==
    LET Cut(i) == IF 1 < i /\ i < Len(name) THEN From(name, i) ELSE <<>>
    IN  Cut(RFind(name, "."))
PathSuffix(p) == Suffix(PathName(p))

\* the parts a str contributes to a path: split on "/", "" and "." dropped
PathParts(s) ==
    LET Keep(x) == x # <<>> /\ x # <<".">>
    IN  SelectSeq(Split(s, "/"), Keep)

\* PurePath.__truediv__ with a str argument that does not start with "/"
PathJoin(p, s) == p \o PathParts(s)

\* str(path) of a relative path: "." for the empty path
PathStr(p) == IF Len(p) = 0 THEN <<".">> ELSE Join(p, "/")

\* str(path) of an absolute path
AbsPathStr(p) == <<"/">> \o Join(p, "/")

\* The result of an operation that may raise: ok with a value, or the error.
Ok(v) == [ok |-> TRUE, val |-> v, err |-> "none"]
Raise(e) == [ok |-> FALSE, val |-> None, err |-> e]

\* PurePath.with_suffix(suffix): ValueError when the path has no name
WithSuffix(p, suffix) ==
    LET Replace(name, old) ==
            IF name = <<>> THEN Raise("ValueError")
            ELSE Ok(PathParent(p) \o <<SubSeq(name, 1, Len(name) - Len(old)) \o suffix>>)
    IN  Replace(PathName(p), PathSuffix(p))

\* PurePath.relative_to(root): ValueError when p is not below root
RelativeTo(p, root) ==
    IF Len(p) >= Len(root) /\ SubSeq(p, 1, Len(root)) = root
    THEN Ok(SubSeq(p, Len(root) + 1, Len(p)))
    ELSE Raise("ValueError")

\* Path.resolve() of an absolute path with no symbolic links: ".." steps
\* to the parent, and the parent of "/" is "/"
RECURSIVE ResolveParts(_, _)
ResolveParts(done, rest) ==
    IF Len(rest) = 0 THEN done
    ELSE IF rest[1] = <<".", ".">>
         THEN ResolveParts(PathParent(done), Tail(rest))
         ELSE ResolveParts(Append(done, rest[1]), Tail(rest))
Resolve(p) == ResolveParts(<<>>, p)

\* ------------------------------------------------------------------ PathFilter

\* the excluded_dirs set literal of _should_exclude_directory
excluded_dirs ==
    { <<"t","e","s","t","s">>,
      <<"t","e","s","t">>,
      <<"e","x","a","m","p","l","e">>,
      <<"e","x","a","m","p","l","e","s">>,
      <<".","v","e","n","v">>,
      <<"v","e","n","v">>,
      <<".","g","i","t">>,
      <<".","v","s","c","o","d","e">>,
      <<"c","y","p","r","e","s","s">>,
      <<"n","o","d","e","_","m","o","d","u","l","e","s">>,
      <<"_","_","p","y","c","a","c","h","e","_","_">>,
      <<".","p","y","t","e","s","t","_","c","a","c","h","e">>,
      <<".","m","y","p","y","_","c","a","c","h","e">>,
      <<"d","i","s","t">>,
      <<"b","u","i","l","d">>,
      <<".","t","o","x">> }

\* the excluded_dirs set literal of _should_include_file (written out a second
\* time in the source)
include_excluded_dirs ==
    { <<"t","e","s","t","s">>,
      <<"t","e","s","t">>,
      <<"e","x","a","m","p","l","e">>,
      <<"e","x","a","m","p","l","e","s">>,
      <<".","v","e","n","v">>,
      <<"v","e","n","v">>,
      <<".","g","i","t">>,
      <<".","v","s","c","o","d","e">>,
      <<"c","y","p","r","e","s","s">>,
      <<"n","o","d","e","_","m","o","d","u","l","e","s">>,
      <<"_","_","p","y","c","a","c","h","e","_","_">>,
      <<".","p","y","t","e","s","t","_","c","a","c","h","e">>,
      <<".","m","y","p","y","_","c","a","c","h","e">>,
      <<"d","i","s","t">>,
      <<"b","u","i","l","d">>,
      <<".","t","o","x">> }

\* the extension allow-list of _should_include_file
included_suffixes ==
    { <<".","p","y">>,
      <<".","t","s">>,
      <<".","j","s">>,
      <<".","t","s","x">>,
      <<".","m","d">>,
      <<".","t","x","t">> }

\* the manifest names of _should_include_file
included_names ==
    { <<"p","a","c","k","a","g","e",".","j","s","o","n">>,
      <<"p","y","p","r","o","j","e","c","t",".","t","o","m","l">>,
      <<"r","e","q","u","i","r","e","m","e","n","t","s",".","t","x","t">>,
      <<"p","o","e","t","r","y",".","l","o","c","k">> }

\* the manifest names of the bucketing loop of build_repo_model
package_file_names ==
    { <<"p","a","c","k","a","g","e",".","j","s","o","n">>,
      <<"p","y","p","r","o","j","e","c","t",".","t","o","m","l">>,
      <<"r","e","q","u","i","r","e","m","e","n","t","s",".","t","x","t">>,
      <<"p","o","e","t","r","y",".","l","o","c","k">> }

s_readme == <<"r","e","a","d","m","e">>
s_test == <<"t","e","s","t">>

_should_exclude_directory(dir_name) == StrLower(dir_name) \in excluded_dirs

\* file_path and root_path are absolute paths; the result is ok with a
\* Boolean, or the ValueError of relative_to
_should_include_file(file_path, root_path) ==
    LET Decide(rel) ==
            IF ~rel.ok THEN Raise(rel.err)
            ELSE IF \E i \in 1..(Len(rel.val) - 1) :
                        StrLower(rel.val[i]) \in include_excluded_dirs
                 THEN Ok(FALSE)
            ELSE IF StrLower(PathSuffix(file_path)) \in included_suffixes THEN Ok(TRUE)
            ELSE IF StrLower(PathName(file_path)) \in included_names THEN Ok(TRUE)
            ELSE IF StartsWith(PathName(file_path), s_test) THEN Ok(FALSE)
            ELSE Ok(FALSE)
    IN  Decide(RelativeTo(file_path, root_path))

\* ------------------------------------------------------------------ resolvers

s_dot_py == <<".","p","y">>
s_init_py == <<"_","_","i","n","i","t","_","_",".","p","y">>
s_dot == <<".">>

\* current_dir.parent taken n times
RECURSIVE ParentN(_, _)
ParentN(p, n) == IF n = 0 THEN p ELSE ParentN(PathParent(p), n - 1)

\* target_path / part for each part in turn
RECURSIVE JoinAll(_, _)
JoinAll(p, parts) ==
    IF Len(parts) = 0 THEN p ELSE JoinAll(PathJoin(p, parts[1]), Tail(parts))

\* the number of directories _resolve_relative_import climbs from the
\* directory of the importing file, for an import with `dots` leading dots
ClimbCount(dots) == dots

\* "x = str(candidate.relative_to(root_path)); if x in all_files: return x":
\* the candidate when it is a known file, None when it is not, or the
\* ValueError of with_suffix or relative_to; `made` is the candidate path as
\* with_suffix returned it
Known(made, root_path, all_files) ==
    LET Check(rel) ==
            IF ~rel.ok THEN Raise(rel.err)
            ELSE IF PathStr(rel.val) \in all_files THEN Ok(PathStr(rel.val))
            ELSE Ok(None)
    IN  IF ~made.ok THEN Raise(made.err) ELSE Check(RelativeTo(made.val, root_path))

\* the two probes shared by _resolve_relative_import and
\* _resolve_absolute_import: <target>.py, then <target>/__init__.py
ProbePython(target_path, root_path, all_files) ==
    LET Second(first) ==
            IF ~first.ok \/ first.val # None THEN first
            ELSE Known(Ok(Append(target_path, s_init_py)), root_path, all_files)
    IN  Second(Known(WithSuffix(target_path, s_dot_py), root_path, all_files))

_resolve_relative_import(module_path, file_path, root_path, all_files) ==
    LET Target(stripped) ==
            JoinAll(ParentN(PathParent(file_path),
                            ClimbCount(Len(module_path) - Len(stripped))),
                    Split(stripped, "."))
    IN  ProbePython(Target(LStripSet(module_path, {"."})), root_path, all_files)

_resolve_absolute_import(module_path, root_path, all_files) ==
    ProbePython(JoinAll(root_path, Split(module_path, ".")), root_path, all_files)

\* the extensions _resolve_ts_relative_import tries, in order
ts_extensions == << <<".","t","s">>, <<".","t","s","x">>, <<".","j","s">> >>
s_index == <<"i","n","d","e","x">>

\* for ext in exts: the first <target><ext> that is a known file
RECURSIVE ProbeSuffixes(_, _, _, _)
ProbeSuffixes(target_path, exts, root_path, all_files) ==
    LET Then(first) ==
            IF ~first.ok \/ first.val # None THEN first
            ELSE ProbeSuffixes(target_path, Tail(exts), root_path, all_files)
    IN  IF Len(exts) = 0 THEN Ok(None)
        ELSE Then(Known(WithSuffix(target_path, exts[1]), root_path, all_files))

\* for ext in exts: the first <target>/index<ext> that is a known file
RECURSIVE ProbeIndex(_, _, _, _)
ProbeIndex(target_path, exts, root_path, all_files) ==
    LET Then(first) ==
            IF ~first.ok \/ first.val # None THEN first
            ELSE ProbeIndex(target_path, Tail(exts), root_path, all_files)
    IN  IF Len(exts) = 0 THEN Ok(None)
        ELSE Then(Known(Ok(Append(target_path, s_index \o exts[1])), root_path, all_files))

_resolve_ts_relative_import(import_path, file_path, root_path, all_files) ==
    LET Probe(target_path) ==
            LET Then(first) ==
                    IF ~first.ok \/ first.val # None THEN first
                    ELSE ProbeIndex(target_path, ts_extensions, root_path, all_files)
            IN  Then(ProbeSuffixes(target_path, ts_extensions, root_path, all_files))
    IN  Probe(Resolve(PathJoin(PathParent(file_path), import_path)))

\* ------------------------------------------------------------------ patterns
\* The regular expressions of the extractors, matched as re.match matches
\* them: anchored at the start of the line, greedy, with backtracking where
\* the pattern allows more than one way.

IsModuleChar(c) == IsWordChar(c) \/ c = "."
IsQuoteChar(c) == c = "'" \/ c = "\""

\* the character classes of the patterns, \s, \w, [\w.], [^'"] and [^)]:
\* c is a character of the class
InClass(c, class) ==
    IF class = "space" THEN IsSpaceChar(c)
    ELSE IF class = "word" THEN IsWordChar(c)
    ELSE IF class = "module" THEN IsModuleChar(c)
    ELSE IF class = "not_quote" THEN ~IsQuoteChar(c)
    ELSE IF class = "not_close_paren" THEN c # ")"
    ELSE FALSE

\* the least position j >= i that is past the end of s or whose character is
\* not of the class: where a greedy class* that starts at i stops
SkipWhile(s, i, class) ==
    IF i > Len(s) THEN i
    ELSE CHOOSE j \in i..(Len(s) + 1) :
            /\ \A k \in i..(j - 1) : InClass(s[k], class)
            /\ (j = Len(s) + 1 \/ ~InClass(s[j], class))

SkipSpace(s, i) == SkipWhile(s, i, "space")
WordEnd(s, i) == SkipWhile(s, i, "word")

\* the literal lit stands in s at position i
LitAt(s, i, lit) ==
    /\ i >= 1
    /\ i + Len(lit) - 1 <= Len(s)
    /\ SubSeq(s, i, i + Len(lit) - 1) = lit

CharAt(s, i, c) == i >= 1 /\ i <= Len(s) /\ s[i] = c

\* str.count(sub): the occurrences of sub in s that do not overlap
RECURSIVE Count(_, _)
Count(s, sub) ==
    IF Len(s) < Len(sub) THEN 0
    ELSE IF LitAt(s, 1, sub) THEN 1 + Count(From(s, Len(sub) + 1), sub)
    ELSE Count(Tail(s), sub)

s_from == <<"f","r","o","m">>
s_import == <<"i","m","p","o","r","t">>
s_from_sp == <<"f","r","o","m"," ">>
s_import_sp == <<"i","m","p","o","r","t"," ">>
s_src == <<"s","r","c">>
s_def == <<"d","e","f">>
s_async == <<"a","s","y","n","c">>
s_export == <<"e","x","p","o","r","t">>
s_function == <<"f","u","n","c","t","i","o","n">>
s_const == <<"c","o","n","s","t">>
s_arrow == <<"=",">">>
s_if == <<"i","f">>
s_for == <<"f","o","r">>
s_while == <<"w","h","i","l","e">>
s_dq3 == <<"\"","\"","\"">>
s_sq3 == <<"'","'","'">>
s_jsdoc_open == <<"/","*","*">>
s_comment_open == <<"/","*">>
s_comment_close == <<"*","/">>
s_slashes == <<"/","/">>
s_hash == <<"#">>

NoMatch == [ok |-> FALSE]


\* r"from\s+([\w.]+)\s+import"
MatchFromImport(line) ==
    LET M3(a, b, c) ==
            IF LitAt(line, 1, s_from) /\ a > 5 /\ b > a /\ c > b /\ LitAt(line, c, s_import)
            THEN [ok |-> TRUE, module_path |-> SubSeq(line, a, b - 1)]
            ELSE NoMatch
        M2(a, b) == M3(a, b, SkipSpace(line, b))
        M1(a) == M2(a, SkipWhile(line, a, "module"))
    IN  M1(SkipSpace(line, 5))

\* r"import\s+([\w.]+)"
MatchImport(line) ==
    LET M2(a, b) ==
            IF LitAt(line, 1, s_import) /\ a > 7 /\ b > a
            THEN [ok |-> TRUE, module_path |-> SubSeq(line, a, b - 1)]
            ELSE NoMatch
        M1(a) == M2(a, SkipWhile(line, a, "module"))
    IN  M1(SkipSpace(line, 7))

\* from\s+['"]([^'"]+)['"] standing at position p: the text of the group
TsFromAt(line, p) ==
    LET M2(a, b) ==
            IF /\ LitAt(line, p, s_from)
               /\ a > p + 4
               /\ a <= Len(line) /\ IsQuoteChar(line[a])
               /\ b > a + 1
               /\ b <= Len(line) /\ IsQuoteChar(line[b])
            THEN [ok |-> TRUE, import_path |-> SubSeq(line, a + 1, b - 1)]
            ELSE NoMatch
        M1(a) == M2(a, SkipWhile(line, a + 1, "not_quote"))
    IN  M1(SkipSpace(line, p + 4))

\* r'import.*from\s+[\'"]([^\'"]+)[\'"]': the greedy .* takes the last "from"
\* after which the rest of the pattern matches
MatchTsImport(line) ==
    LET Last(starts) ==
            IF LitAt(line, 1, s_import) /\ starts # {}
            THEN TsFromAt(line, CHOOSE q \in starts : \A r \in starts : r <= q)
            ELSE NoMatch
    IN  Last({p \in 7..Len(line) : TsFromAt(line, p).ok})

\* an optional "<word>\s+" prefix at position i: the position after it when it
\* is there, i when it is not
AfterOptional(line, i, word) ==
    LET After(b) == IF LitAt(line, i, word) /\ b > i + Len(word) THEN b ELSE i
    IN  After(SkipSpace(line, i + Len(word)))

\* \(([^)]*)\) standing at position i: the argument text and the position
\* after the closing parenthesis
ParenArgsAt(line, i) ==
    LET Close(g) ==
            IF CharAt(line, i, "(") /\ g <= Len(line)
            THEN [ok |-> TRUE, args |-> SubSeq(line, i + 1, g - 1), next |-> g + 1]
            ELSE NoMatch
    IN  Close(SkipWhile(line, i + 1, "not_close_paren"))

\* (\w+)\s*\(([^)]*)\) standing at position e: the name, the argument text
\* and the position after the closing parenthesis
NameArgsAt(line, e) ==
    LET N2(w, pa) ==
            IF w > e /\ pa.ok
            THEN [ok |-> TRUE, name |-> SubSeq(line, e, w - 1), args |-> pa.args,
                  next |-> pa.next]
            ELSE NoMatch
        N1(w) == N2(w, ParenArgsAt(line, SkipSpace(line, w)))
    IN  N1(WordEnd(line, e))

\* r"(async\s+)?def\s+(\w+)\s*\(([^)]*)\):"
MatchPythonDef(line) ==
    LET D2(start, e, na) ==
            IF /\ LitAt(line, start, s_def)
               /\ e > start + 3
               /\ na.ok
               /\ CharAt(line, na.next, ":")
            THEN [ok |-> TRUE, name |-> na.name, args |-> na.args]
            ELSE NoMatch
        D1(start, e) == D2(start, e, NameArgsAt(line, e))
        D0(start) == D1(start, SkipSpace(line, start + 3))
    IN  D0(AfterOptional(line, 1, s_async))

\* r"(export\s+)?(async\s+)?function\s+(\w+)\s*\(([^)]*)\)"
MatchTsFunction(line) ==
    LET F2(start, e, na) ==
            IF LitAt(line, start, s_function) /\ e > start + 8 /\ na.ok
            THEN [ok |-> TRUE, name |-> na.name, args |-> na.args]
            ELSE NoMatch
        F1(start, e) == F2(start, e, NameArgsAt(line, e))
        F0(start) == F1(start, SkipSpace(line, start + 8))
    IN  F0(AfterOptional(line, AfterOptional(line, 1, s_export), s_async))

\* \(([^)]*)\)\s*=> standing at position i
ArrowArgsAt(line, i) ==
    LET Arrow(pa) ==
            IF pa.ok /\ LitAt(line, SkipSpace(line, pa.next), s_arrow)
            THEN [ok |-> TRUE, args |-> pa.args]
            ELSE NoMatch
    IN  Arrow(ParenArgsAt(line, i))

\* r"(export\s+)?const\s+(\w+)\s*=\s*(\(([^)]*)\)\s*=>|async\s*\(([^)]*)\)\s*=>)"
\* with func_args = group(4) or group(5) or ""
MatchTsArrow(line) ==
    LET A5(name, g, plain, asyn) ==
            IF plain.ok THEN [ok |-> TRUE, name |-> name, args |-> plain.args]
            ELSE IF LitAt(line, g, s_async) /\ asyn.ok
            THEN [ok |-> TRUE, name |-> name, args |-> asyn.args]
            ELSE NoMatch
        A4(name, g) ==
            A5(name, g, ArrowArgsAt(line, g), ArrowArgsAt(line, SkipSpace(line, g + 5)))
        A3(start, e, w, f) ==
            IF LitAt(line, start, s_const) /\ e > start + 5 /\ w > e /\ CharAt(line, f, "=")
            THEN A4(SubSeq(line, e, w - 1), SkipSpace(line, f + 1))
            ELSE NoMatch
        A2(start, e, w) == A3(start, e, w, SkipSpace(line, w))
        A1(start, e) == A2(start, e, WordEnd(line, e))
        A0(start) == A1(start, SkipSpace(line, start + 5))
    IN  A0(AfterOptional(line, 1, s_export))

\* (\w+)\s*\(([^)]*)\)\s*{ standing at position i
MethodAt(line, i) ==
    LET Brace(na) ==
            IF na.ok /\ CharAt(line, SkipSpace(line, na.next), "{")
            THEN [ok |-> TRUE, name |-> na.name, args |-> na.args]
            ELSE NoMatch
    IN  Brace(NameArgsAt(line, i))

\* r"\s*(async\s+)?(\w+)\s*\(([^)]*)\)\s*{": when the rest does not match
\* after an "async " prefix, the pattern is tried with the prefix not taken
MatchTsMethod(line) ==
    LET M2(s0, s1, taken) ==
            IF s1 # s0 /\ taken.ok THEN taken ELSE MethodAt(line, s0)
        M1(s0, s1) == M2(s0, s1, MethodAt(line, s1))
        M0(s0) == M1(s0, AfterOptional(line, s0, s_async))
    IN  M0(SkipSpace(line, 1))

\* ------------------------------------------------------------------ extractors

\* types/files.py: Function(name, arguments, description)
Function(name, arguments, description) ==
    [name |-> name, arguments |-> arguments, description |-> description]

\* The result of an extractor: (dependencies, imports, functions,
\* file_description), or the exception that left it.
Extracted(deps, imports, functions, description) ==
    [ok |-> TRUE, err |-> "none", dependencies |-> deps, imports |-> imports,
     functions |-> functions, description |-> description]
ExtractRaise(e) ==
    [ok |-> FALSE, err |-> e, dependencies |-> <<>>, imports |-> <<>>,
     functions |-> <<>>, description |-> None]

\* "if dep_path: dependencies.append(dep_path)" for a resolver result r that
\* did not raise
AppendDep(deps, r) ==
    IF r.val # None /\ r.val # <<>> THEN Append(deps, r.val) ELSE deps

\* the first index j >= i (1-based) of a line that is not blank, Len + 1 if none
SkipBlankLines(lines, i) ==
    IF i > Len(lines) THEN Len(lines) + 1
    ELSE CHOOSE j \in i..(Len(lines) + 1) :
            /\ \A k \in i..(j - 1) : Strip(lines[k]) = <<>>
            /\ (j = Len(lines) + 1 \/ Strip(lines[j]) # <<>>)

\* a scan for the closing line that falls back on its first line when no line
\* closes, instead of running to the end of the file
ClosingLineOrFirst(lines, i, quote_type) ==
    IF i > Len(lines) THEN Len(lines) + 1
    ELSE IF \A m \in i..Len(lines) : ~EndsWith(Strip(lines[m]), quote_type) THEN i
    ELSE CHOOSE k \in i..Len(lines) :
            /\ \A m \in i..(k - 1) : ~EndsWith(Strip(lines[m]), quote_type)
            /\ EndsWith(Strip(lines[k]), quote_type)

\* the first index k >= i of a line whose stripped text ends with quote_type,
\* Len + 1 if none
ClosingLine(lines, i, quote_type) ==
    IF i > Len(lines) THEN Len(lines) + 1
    ELSE CHOOSE k \in i..(Len(lines) + 1) :
            /\ \A m \in i..(k - 1) : ~EndsWith(Strip(lines[m]), quote_type)
            /\ (k = Len(lines) + 1 \/ EndsWith(Strip(lines[k]), quote_type))

\* _extract_python_info, lines 246-271: the docstring of the function whose
\* signature is line i
PythonDocstring(lines, i) ==
    LET Multi(j, next_line, qset, k) ==
            Strip(Join(<<LStripSet(next_line, qset)>>
                       \o SubSeq(lines, j + 1, k - 1)
                       \o (IF k <= Len(lines) THEN <<RStripSet(lines[k], qset)>> ELSE <<>>),
                       "\n"))
        Quoted(j, next_line, quote_type) ==
            IF Count(next_line, quote_type) >= 2
            THEN Strip(StripSet(next_line, {quote_type[1]}))
            ELSE Multi(j, next_line, {quote_type[1]}, ClosingLine(lines, j + 1, quote_type))
        At(j, next_line) ==
            IF StartsWith(next_line, s_dq3) THEN Quoted(j, next_line, s_dq3)
            ELSE IF StartsWith(next_line, s_sq3) THEN Quoted(j, next_line, s_sq3)
            ELSE None
        Look(j) == IF j > Len(lines) THEN None ELSE At(j, Strip(lines[j]))
    IN  Look(SkipBlankLines(lines, i + 1))

\* _extract_python_info, lines 204-238: the dependency of one import line
PythonLineDependency(line, file_path, root_path, all_files) ==
    LET FromDep(m) ==
            IF ~m.ok THEN Ok(None)
            ELSE IF StartsWith(m.module_path, s_dot)
                 THEN _resolve_relative_import(m.module_path, file_path, root_path, all_files)
            ELSE IF StartsWith(m.module_path, s_src)
                 THEN _resolve_absolute_import(m.module_path, root_path, all_files)
            ELSE Ok(None)
        ImportDep(m) ==
            IF m.ok /\ StartsWith(m.module_path, s_src)
            THEN _resolve_absolute_import(m.module_path, root_path, all_files)
            ELSE Ok(None)
    IN  IF StartsWith(line, s_from_sp) THEN FromDep(MatchFromImport(line))
        ELSE IF StartsWith(line, s_import_sp) THEN ImportDep(MatchImport(line))
        ELSE Ok(None)

\* the while loop of _extract_python_info from line i (1-based) on
RECURSIVE PythonScan(_, _, _, _, _, _, _, _)
PythonScan(lines, i, deps, imports, functions, file_path, root_path, all_files) ==
    LET Functions(func_match) ==
            IF func_match.ok
            THEN Append(functions,
                        Function(func_match.name, func_match.args, PythonDocstring(lines, i)))
            ELSE functions
        Step(line, is_import, dep) ==
            IF is_import /\ ~dep.ok THEN ExtractRaise(dep.err)
            ELSE PythonScan(lines, i + 1,
                            IF is_import THEN AppendDep(deps, dep) ELSE deps,
                            IF is_import THEN Append(imports, line) ELSE imports,
                            Functions(MatchPythonDef(line)),
                            file_path, root_path, all_files)
        Line(line) ==
            Step(line,
                 StartsWith(line, s_import_sp) \/ StartsWith(line, s_from_sp),
                 PythonLineDependency(line, file_path, root_path, all_files))
    IN  IF i > Len(lines) THEN Extracted(deps, imports, functions, None)
        ELSE Line(Strip(lines[i]))

\* a line the description scan of a Python file skips: blank, a "#" comment
\* or an import
IsPythonHeader(stripped) ==
    \/ stripped = <<>>
    \/ StartsWith(stripped, s_hash)
    \/ StartsWith(stripped, s_from_sp)
    \/ StartsWith(stripped, s_import_sp)

\* the first index i of a line of the file that is not such a line; Len + 1
\* if none
PythonHeaderEnd(lines) ==
    CHOOSE i \in 1..(Len(lines) + 1) :
        /\ \A k \in 1..(i - 1) : IsPythonHeader(Strip(lines[k]))
        /\ (i = Len(lines) + 1 \/ ~IsPythonHeader(Strip(lines[i])))

\* the "#" lines among the first n lines, each with line.lstrip("# ")
RECURSIVE HashLines(_, _)
HashLines(lines, n) ==
    LET One(stripped) ==
            IF StartsWith(stripped, s_hash) THEN <<LStripSet(stripped, {"#", " "})>> ELSE <<>>
    IN  IF n = 0 THEN <<>> ELSE HashLines(lines, n - 1) \o One(Strip(lines[n]))

\* _extract_file_description, file_type == "python", before the final join
PythonDescriptionLines(lines) ==
    LET Multi(i, first, k) ==
            <<LStripSet(first, {"\""})>>
            \o [m \in 1..(k - 1 - i) |-> Strip(lines[i + m])]
            \o (IF k <= Len(lines) THEN <<RStripSet(Strip(lines[k]), {"\""})>> ELSE <<>>)
        Doc(i, first) ==
            IF ~StartsWith(first, s_dq3) THEN <<>>
            ELSE IF Count(first, s_dq3) >= 2 THEN <<Strip(StripSet(first, {"\""}))>>
            ELSE Multi(i, first, ClosingLine(lines, i + 1, s_dq3))
        At(i) ==
            HashLines(lines, i - 1)
            \o (IF i <= Len(lines) THEN Doc(i, Strip(lines[i])) ELSE <<>>)
    IN  At(PythonHeaderEnd(lines))

\* _extract_file_description, file_type == "typescript", before the final join:
\* the for loop from line i on
RECURSIVE TsDescriptionLines(_, _)
TsDescriptionLines(lines, i) ==
    LET Line(stripped) ==
            IF stripped = <<>> THEN TsDescriptionLines(lines, i + 1)
            ELSE IF StartsWith(stripped, s_slashes)
                 THEN <<LStripSet(stripped, {"/", " "})>> \o TsDescriptionLines(lines, i + 1)
            ELSE IF StartsWith(stripped, s_comment_open)
                 THEN IF EndsWith(stripped, s_comment_close)
                      THEN <<RStripSet(LStripSet(stripped, {"/", "*", " "}), {" ", "*", "/"})>>
                           \o TsDescriptionLines(lines, i + 1)
                      ELSE <<LStripSet(stripped, {"/", "*", " "})>>
            ELSE <<>>
    IN  IF i > Len(lines) THEN <<>> ELSE Line(Strip(lines[i]))

_extract_file_description(content, file_type) ==
    LET Joined(description_lines) ==
            IF description_lines # <<>> THEN Strip(Join(description_lines, "\n")) ELSE None
        Lines(lines) ==
            IF file_type = "python" THEN PythonDescriptionLines(lines)
            ELSE IF file_type = "typescript" THEN TsDescriptionLines(lines, 1)
            ELSE <<>>
    IN  Joined(Lines(Split(content, "\n")))

_extract_python_info(content, file_path, root_path, all_files) ==
    LET Result(scan) ==
            IF scan.ok
            THEN Extracted(scan.dependencies, scan.imports, scan.functions,
                           _extract_file_description(content, "python"))
            ELSE scan
    IN  Result(PythonScan(Split(content, "\n"), 1, <<>>, <<>>, <<>>,
                          file_path, root_path, all_files))

\* _extract_typescript_info, lines 302-316: the dependency of one import line
TsLineDependency(line, file_path, root_path, all_files) ==
    LET Dep(m) ==
            IF m.ok /\ StartsWith(m.import_path, s_dot)
            THEN _resolve_ts_relative_import(m.import_path, file_path, root_path, all_files)
            ELSE Ok(None)
    IN  Dep(MatchTsImport(line))

\* the first index j >= i of a line whose stripped text ends with "*/",
\* Len + 1 if none: where the while loop of lines 325-329 stops
JsDocEnd(lines, i) == ClosingLine(lines, i, s_comment_close)

\* lines 338-379 without the three startswith tests of lines 367-372
TsLineFunctionsUnguarded(line, func_description) ==
    LET One(m) ==
            IF m.ok THEN <<Function(m.name, m.args, func_description)>> ELSE <<>>
    IN  One(MatchTsFunction(line)) \o One(MatchTsArrow(line)) \o One(MatchTsMethod(line))

\* lines 338-379: the functions the three patterns capture on one line, in
\* the order the code appends them
TsLineFunctions(line, func_description) ==
    LET One(m) ==
            IF m.ok THEN <<Function(m.name, m.args, func_description)>> ELSE <<>>
        Method(m, stripped) ==
            IF /\ m.ok
               /\ ~StartsWith(stripped, s_if)
               /\ ~StartsWith(stripped, s_for)
               /\ ~StartsWith(stripped, s_while)
            THEN <<Function(m.name, m.args, func_description)>>
            ELSE <<>>
    IN  One(MatchTsFunction(line)) \o One(MatchTsArrow(line))
        \o Method(MatchTsMethod(line), Strip(line))

\* The state of the while loop of _extract_typescript_info after the
\* iteration that starts on line i: the index of the next line to scan and the
\* three lists, or the exception raised.
TsStepped(next, deps, imports, functions) ==
    [ok |-> TRUE, err |-> "none", next |-> next, dependencies |-> deps,
     imports |-> imports, functions |-> functions]
TsStepRaise(e) ==
    [ok |-> FALSE, err |-> e, next |-> 0, dependencies |-> <<>>,
     imports |-> <<>>, functions |-> <<>>]

\* lines 318-381 for line i, whose stripped text is `line`, once its import
\* has been handled
TsFunctionStep(lines, i, line, deps, imports, functions) ==
    LET \* lines 322-336: a JSDoc block that starts on line i and ends on line
        \* j (Len + 1: never); the patterns are tried on the line after it,
        \* and "continue" leaves the loop when there is none
        JsDoc(j) ==
            IF j + 1 > Len(lines)
            THEN TsStepped(j + 1, deps, imports, functions)
            ELSE TsStepped(j + 2, deps, imports,
                           functions \o TsLineFunctions(Strip(lines[j + 1]),
                                                        Strip(Join(SubSeq(lines, i, j), "\n"))))
    IN  IF StartsWith(line, s_jsdoc_open)
        THEN JsDoc(JsDocEnd(lines, i))
        ELSE TsStepped(i + 1, deps, imports, functions \o TsLineFunctions(line, None))

\* lines 300-381: one iteration of the while loop, on line i
TsStep(lines, i, deps, imports, functions, file_path, root_path, all_files) ==
    LET Import(line, is_import, dep) ==
            IF is_import /\ ~dep.ok THEN TsStepRaise(dep.err)
            ELSE TsFunctionStep(lines, i, line,
                                IF is_import THEN AppendDep(deps, dep) ELSE deps,
                                IF is_import THEN Append(imports, line) ELSE imports,
                                functions)
        Line(line) ==
            Import(line, StartsWith(line, s_import_sp),
                   TsLineDependency(line, file_path, root_path, all_files))
    IN  Line(Strip(lines[i]))

\* the while loop of _extract_typescript_info from line i (1-based) on
RECURSIVE TsScan(_, _, _, _, _, _, _, _)
TsScan(lines, i, deps, imports, functions, file_path, root_path, all_files) ==
    LET Loop(st) ==
            IF ~st.ok THEN ExtractRaise(st.err)
            ELSE TsScan(lines, st.next, st.dependencies, st.imports, st.functions,
                        file_path, root_path, all_files)
    IN  IF i > Len(lines) THEN Extracted(deps, imports, functions, None)
        ELSE Loop(TsStep(lines, i, deps, imports, functions, file_path, root_path, all_files))

_extract_typescript_info(content, file_path, root_path, all_files) ==
    LET Result(scan) ==
            IF scan.ok
            THEN Extracted(scan.dependencies, scan.imports, scan.functions,
                           _extract_file_description(content, "typescript"))
            ELSE scan
    IN  Result(TsScan(Split(content, "\n"), 1, <<>>, <<>>, <<>>,
                      file_path, root_path, all_files))

\* the TypeScript/JavaScript extensions of hydrate_files
hydrate_ts_suffixes == { <<".","t","s">>, <<".","t","s","x">>, <<".","j","s">> }

\* hydrate_files: dispatch on file_path.suffix.lower()
hydrate_files(content, file_path, root_path, all_files) ==
    LET Dispatch(file_extension) ==
            IF file_extension = s_dot_py
            THEN _extract_python_info(content, file_path, root_path, all_files)
            ELSE IF file_extension \in hydrate_ts_suffixes
            THEN _extract_typescript_info(content, file_path, root_path, all_files)
            ELSE Extracted(<<>>, <<>>, <<>>, None)
    IN  Dispatch(StrLower(PathSuffix(file_path)))

\* ------------------------------------------------------------------ file system
\* The file system the scan runs on: the set of the files below the root, each
\* a root-relative path, the text of each file, and the order in which a
\* directory lists its entries.  A directory exists when a file lies below it.

\* root_path == Path(path).resolve(), an absolute path
RootPath == PathParts(<<"w","/","r","e","p","o">>)

TreeScenario ==
    { PathParts(<<"R","E","A","D","M","E",".","m","d">>),
      PathParts(<<"m","a","i","n",".","p","y">>) }

TreePkg ==
    { PathParts(<<"m",".","p","y">>),
      PathParts(<<"p","k","g","/","a",".","p","y">>),
      PathParts(<<"p","k","g","/","b",".","p","y">>),
      PathParts(<<"p","k","g","/","m",".","p","y">>) }

TreeSrc ==
    { PathParts(<<"m","a","i","n",".","p","y">>),
      PathParts(<<"s","r","c","/","a",".","p","y">>),
      PathParts(<<"s","r","c","/","b",".","p","y">>),
      PathParts(<<"s","r","c","/","c","/","_","_","i","n","i","t","_","_",".","p","y">>) }

TreeTs ==
    { PathParts(<<"s","r","c","/","x",".","t","s">>),
      PathParts(<<"s","r","c","/","y",".","t","s">>),
      PathParts(<<"s","r","c","/","y",".","t","s","x">>),
      PathParts(<<"s","r","c","/","y","/","i","n","d","e","x",".","t","s">>) }

TreeTsx ==
    { PathParts(<<"m","a","i","n",".","t","s">>),
      PathParts(<<"s","r","c","/","x",".","t","s">>),
      PathParts(<<"s","r","c","/","y",".","t","s","x">>),
      PathParts(<<"s","r","c","/","y",".","s","e","r","v","i","c","e",".","t","s">>),
      PathParts(<<"s","r","c","/","z","/","i","n","d","e","x",".","j","s">>) }

TreeExcluded ==
    { PathParts(<<"a","p","p",".","p","y">>),
      PathParts(<<"t","e","s","t","_","f","o","o",".","p","y">>),
      PathParts(<<"n","o","t","e","s",".","b","i","n">>),
      PathParts(<<"n","o","d","e","_","m","o","d","u","l","e","s","/","l","i","b",".","j","s">>),
      PathParts(<<"T","e","s","t","s","/","h","e","l","p","e","r",".","p","y">>),
      PathParts(<<"p","k","g","/","n","o","d","e","_","m","o","d","u","l","e","s","/","d","e","e","p","/","z",".","p","y">>),
      PathParts(<<"p","k","g","/","B","u","i","l","d","/","g","e","n",".","t","s">>) }

TreeManifest ==
    { PathParts(<<"p","a","c","k","a","g","e",".","j","s","o","n">>),
      PathParts(<<"P","Y","P","R","O","J","E","C","T",".","T","O","M","L">>),
      PathParts(<<"r","e","q","u","i","r","e","m","e","n","t","s",".","t","x","t">>),
      PathParts(<<"r","e","a","d","m","e",".","t","x","t">>),
      PathParts(<<"d","o","c","s","/","R","e","a","d","M","e",".","p","y">>),
      PathParts(<<"d","o","c","s","/","p","o","e","t","r","y",".","l","o","c","k">>),
      PathParts(<<"a","p","p",".","j","s">>),
      PathParts(<<"M","a","k","e","f","i","l","e">>) }

\* a tree whose directory names repeat (srcgen, twice), lie beneath excluded
\* directories (deep, below dist) or are excluded (dist, Build)
TreeDirs ==
    { PathParts(<<"u",".","p","y">>),
      PathParts(<<"s","r","c","g","e","n","/","b",".","p","y">>),
      PathParts(<<"l","i","b","/","s","r","c","g","e","n","/","x",".","p","y">>),
      PathParts(<<"l","i","b","/","d","i","s","t","/","d","e","e","p","/","y",".","p","y">>),
      PathParts(<<"l","i","b","/","B","u","i","l","d","/","z",".","p","y">>) }

Trees ==
    { {}, TreeScenario, TreePkg, TreeSrc, TreeTs, TreeTsx, TreeExcluded, TreeManifest,
      TreeDirs }

\* the lines the text of a Python file is made of
PythonLines ==
    { <<"f","r","o","m"," ",".","m"," ","i","m","p","o","r","t"," ","x">>,
      <<"f","r","o","m"," ","."," ","i","m","p","o","r","t"," ","b">>,
      <<"f","r","o","m"," ","s","r","c",".","b"," ","i","m","p","o","r","t"," ","x">>,
      <<"i","m","p","o","r","t"," ","s","r","c",".","c">> }

\* the lines the text of the file u.py is made of: imports of modules whose
\* first segment is not src
PrefixLines ==
    { <<"i","m","p","o","r","t"," ","s","r","c","g","e","n",".","b">>,
      <<"f","r","o","m"," ","s","r","c","g","e","n",".","b"," ","i","m","p","o","r","t"," ","x">>,
      <<"i","m","p","o","r","t"," ","l","i","b",".","s","r","c","g","e","n",".","x">>,
      <<"f","r","o","m"," ","l","i","b",".","s","r","c","g","e","n",".","x"," ","i","m","p","o","r","t"," ","y">> }

\* the lines the text of a TypeScript file is made of
TsLines ==
    { <<"i","m","p","o","r","t"," ","y"," ","f","r","o","m"," ","\"",".","/","y","\"">>,
      <<"i","m","p","o","r","t"," ","s"," ","f","r","o","m"," ","\"",".","/","y",".","s","e","r","v","i","c","e","\"">>,
      <<"i","m","p","o","r","t"," ","z"," ","f","r","o","m"," ","\"",".","/","z","\"">>,
      <<"i","m","p","o","r","t"," ","u"," ","f","r","o","m"," ","\"",".",".","/",".",".","/","u","\"">> }

\* the text of every other file, and of the Python and TypeScript files whose
\* text is not varied
s_plain_text == <<"x"," ","="," ","1","\n">>

\* the longest text, in lines, of a file whose text is varied
MaxLines == 2

\* the most files of a tree that cannot be read
MaxUnreadable == 1

\* the files whose text is varied: the importing files of the trees
VariedNames == { <<"a",".","p","y">>, <<"x",".","t","s">>, <<"u",".","p","y">> }

\* all sequences of 1..n elements of S
RECURSIVE SeqsUpTo(_, _)
SeqsUpTo(S, n) ==
    IF n = 0 THEN {}
    ELSE LET shorter == SeqsUpTo(S, n - 1)
         IN  {<<x>> : x \in S} \cup shorter
             \cup {Append(q, x) : q \in {r \in shorter : Len(r) = n - 1}, x \in S}

\* the texts a file may hold
TextsOf(f) ==
    IF PathName(f) \in VariedNames
    THEN IF PathName(f) = <<"u",".","p","y">>
         THEN {Join(ls, "\n") : ls \in SeqsUpTo(PrefixLines, MaxLines)}
         ELSE IF PathSuffix(f) = s_dot_py
         THEN {Join(ls, "\n") : ls \in SeqsUpTo(PythonLines, MaxLines)}
         ELSE {Join(ls, "\n") : ls \in SeqsUpTo(TsLines, MaxLines)}
    ELSE {s_plain_text}

\* the ways to give every file of the set S a text
RECURSIVE TextMaps(_)
TextMaps(S) ==
    IF S = {} THEN {<<>>}
    ELSE LET f == CHOOSE x \in S : TRUE
         IN  {[g \in S |-> IF g = f THEN c ELSE m[g]] :
                 c \in TextsOf(f), m \in TextMaps(S \ {f})}

\* the lines the text of the Python file of an extraction tree is made of:
\* declarations, docstrings, a blank line, a statement and an import
ExtractPythonLines ==
    { <<"d","e","f"," ","a","d","d","(","a",","," ","b",")",":">>,
      <<"a","s","y","n","c"," ","d","e","f"," ","g","o","(",")",":">>,
      <<"d","e","f"," ","f","(","a",")"," ","-",">"," ","i","n","t",":">>,
      <<"\"","\"","\"","A","d","d","s"," ","t","w","o"," ","n","u","m","b","e","r","s",".","\"","\"","\"">>,
      <<"\"","\"","\"","\"","H","i","\""," ","t","h","e","r","e",".","\"","\"","\"">>,
      <<"'","'","'"," ","A","d","d","s","."," ","'","'","'">>,
      <<>>,
      <<"x"," ","="," ","1">>,
      <<"i","m","p","o","r","t"," ","o","s">>,
      <<"\"","\"","\"","O","p","e","n">> }

\* the lines the text of the TypeScript file of an extraction tree is made
\* of: control-flow blocks, methods, JSDoc blocks (on one line, opened, closed),
\* an import and a statement
ExtractTsLines ==
    { <<"i","f"," ","(","x",")"," ","{">>,
      <<"f","o","r"," ","(",";",";",")"," ","{">>,
      <<"w","h","i","l","e"," ","(","x",")"," ","{">>,
      <<"f","o","r","m","a","t","(","x",")"," ","{">>,
      <<"r","u","n","(","x",")"," ","{">>,
      <<"/","*","*"," ","d","o","c"," ","*","/">>,
      <<"i","m","p","o","r","t"," ","y"," ","f","r","o","m"," ","\"",".","/","y","\"">>,
      <<"x"," ","="," ","1">>,
      <<"/","*","*">>,
      <<" ","*","/">> }

\* the lines of the file arrow.ts and of the file mod.js of an extraction
\* tree: arrow-function assignments and an import
ExtractArrowLines ==
    { <<"c","o","n","s","t"," ","f"," ","="," ","(","a",")"," ","=",">">>,
      <<"l","e","t"," ","g"," ","="," ","(","a",")"," ","=",">">>,
      <<"v","a","r"," ","v"," ","="," ","(","a",")"," ","=",">">>,
      <<"e","x","p","o","r","t"," ","c","o","n","s","t"," ","h"," ","="," ","a","s","y","n","c"," ","(","a",")"," ","=",">">>,
      <<"i","m","p","o","r","t"," ","y"," ","f","r","o","m"," ","\"",".","/","y","\"">> }

\* the lines of the file desc.ts of an extraction tree: line comments, block
\* comments on one line and on two, a blank line and a statement
ExtractDescLines ==
    { <<"/","/"," ","n","o","t","e">>,
      <<"/","*"," ","a">>,
      <<"b"," ","*","/">>,
      <<"/","*"," ","c"," ","*","/">>,
      <<>>,
      <<"x"," ","="," ","1">> }

\* the lines the text of any other file of an extraction tree is made of
ExtractNoteLines ==
    { <<"i","m","p","o","r","t"," ","o","s">>,
      <<"d","e","f"," ","a","d","d","(","a",","," ","b",")",":">>,
      <<"i","m","p","o","r","t"," ","y"," ","f","r","o","m"," ","\"",".","/","y","\"">> }

\* the one file of an extraction tree: a Python file, or a file no extractor
\* is run on
PythonTreeFiles ==
    { PathParts(<<"m","o","d",".","p","y">>),
      PathParts(<<"n","o","t","e","s",".","m","d">>),
      PathParts(<<"n","o","t","e","s",".","t","x","t">>),
      PathParts(<<"p","a","c","k","a","g","e",".","j","s","o","n">>) }

\* the one file of a TypeScript/JavaScript extraction tree
TsTreeFiles ==
    { PathParts(<<"m","o","d",".","t","s">>),
      PathParts(<<"a","r","r","o","w",".","t","s">>),
      PathParts(<<"d","e","s","c",".","t","s">>),
      PathParts(<<"m","o","d",".","j","s">>) }

\* the longest text, in lines, of the file of an extraction tree
MaxTextLines == 3

\* the texts the file of an extraction tree may hold
ExtractTexts(f) ==
    LET Texts(lines) == {Join(ls, "\n") : ls \in SeqsUpTo(lines, MaxTextLines)}
    IN  IF PathSuffix(f) = s_dot_py THEN Texts(ExtractPythonLines)
        ELSE IF PathName(f) = <<"m","o","d",".","t","s">> THEN Texts(ExtractTsLines)
        ELSE IF PathName(f) = <<"d","e","s","c",".","t","s">> THEN Texts(ExtractDescLines)
        ELSE IF PathSuffix(f) \in hydrate_ts_suffixes THEN Texts(ExtractArrowLines)
        ELSE Texts(ExtractNoteLines)

\* the order of characters (ASCII) and of names, for directory listings
Alphabet == <<"\n", " ", "\"", "'", "(", ")", "*", ",", ".", "/",
              "0","1","2","3","4","5","6","7","8","9", ":", "=", ">",
              "A","B","C","D","E","F","G","H","I","J","K","L","M",
              "N","O","P","Q","R","S","T","U","V","W","X","Y","Z", "_",
              "a","b","c","d","e","f","g","h","i","j","k","l","m",
              "n","o","p","q","r","s","t","u","v","w","x","y","z", "{", "}">>
CharRank(c) == CHOOSE i \in 1..Len(Alphabet) : Alphabet[i] = c

RECURSIVE NameLess(_, _)
NameLess(a, b) ==
    IF Len(b) = 0 THEN FALSE
    ELSE IF Len(a) = 0 THEN TRUE
    ELSE IF a[1] = b[1] THEN NameLess(Tail(a), Tail(b))
    ELSE CharRank(a[1]) < CharRank(b[1])

\* the names of S as a directory lists them: ascending or descending
RECURSIVE Listing(_, _)
Listing(S, order) ==
    IF S = {} THEN <<>>
    ELSE LET first == CHOOSE x \in S :
                        \A y \in S \ {x} :
                            IF order = "asc" THEN NameLess(x, y) ELSE NameLess(y, x)
         IN  <<first>> \o Listing(S \ {first}, order)

\* os.scandir of the directory d (root-relative parts) of tree t: the names
\* of its files and of its subdirectories
FilesIn(t, d) == {f[Len(f)] : f \in {g \in t : PathParent(g) = d}}
DirsIn(t, d) ==
    {f[Len(d) + 1] : f \in {g \in t : Len(g) > Len(d) + 1 /\ SubSeq(g, 1, Len(d)) = d}}

\* ------------------------------------------------------------------ state

VARIABLES
    root_exists,     \* os.path.exists(path)
    tree,            \* the files below the root (root-relative paths)
    text,            \* the text of each file of the tree
    scan_order,      \* the order in which directories list their entries
    read_errors,     \* the files a read has failed on, each with its error
    pc,              \* where build_repo_model stands
    stack,           \* os.walk: the directories still to be visited
    cur_dir,         \* hydration pass: the directory being visited
    cur_files,       \* hydration pass: its files still to be processed
    all_file_paths,  \* build_repo_model's all_file_paths
    directories,     \* build_repo_model's directories
    files_map,       \* build_repo_model's files_map, in insertion order
    repo,            \* the Repo returned, None before
    error,           \* the exception build_repo_model was left by, "none" before
    earlier,         \* the Repos earlier calls on the same tree returned, in order
    readme_path,     \* what find_readme returned, the empty text before
    job,             \* the AnalyzeJobs row generate_analysis_stream is called with
    stored,          \* the models the database holds for the job
    remote,          \* the branches of the repository GitHub serves an archive of
    stream_pc,       \* where generate_analysis_stream stands
    events,          \* the events the stream has emitted, in order
    requested,       \* the archives requested from GitHub, in order
    download_outcome \* how download_github_repo was left, "none" before

vars == <<root_exists, tree, text, scan_order, read_errors, pc, stack, cur_dir,
          cur_files, all_file_paths, directories, files_map, repo, error,
          earlier, readme_path,
          job, stored, remote, stream_pc, events, requested, download_outcome>>

\* the state of generate_analysis_stream and of download_github_repo
stream_vars == <<job, stored, remote, stream_pc, events, requested, download_outcome>>

\* generate_analysis_stream has not been called
NoStream ==
    /\ job = [github_url |-> <<>>, repo_name |-> <<>>, default_branch |-> ""]
    /\ stored = {}
    /\ remote = {}
    /\ stream_pc = "idle"
    /\ events = <<>>
    /\ requested = <<>>
    /\ download_outcome = "none"

\* types/files.py: File; temp_dep_paths is the _temp_dep_paths attribute the
\* builder sets on the object when the list is not empty: the empty list
\* stands for the attribute not being set
File(name, number_of_lines, imports, functions, description, local_path, temp_dep_paths) ==
    [name |-> name, number_of_lines |-> number_of_lines, imports |-> imports,
     functions |-> functions, description |-> description,
     local_path |-> local_path, temp_dep_paths |-> temp_dep_paths]

\* types/files.py: Repo
Repo(readme, files, package_files, dirs) ==
    [readme |-> readme, files |-> files, package_files |-> package_files,
     directories |-> dirs]

\* files_map[key] = value on a dict that keeps insertion order
DictSet(m, key, value) ==
    IF \E i \in 1..Len(m) : m[i].name = key
    THEN [i \in 1..Len(m) |-> IF m[i].name = key THEN value ELSE m[i]]
    ELSE Append(m, value)

\* a count of the "\n" characters alone
NewlineCount(content) == Count(content, <<"\n">>)

\* sum(1 for _ in f): the lines of a text, a last line without "\n" included
LineCount(content) ==
    Count(content, <<"\n">>)
    + (IF Len(content) > 0 /\ content[Len(content)] # "\n" THEN 1 ELSE 0)

\* an except clause that names OSError alone
CaughtOSErrorOnly == {"OSError"}

\* the exceptions the two "except (UnicodeDecodeError, OSError)" clauses catch
CaughtReadErrors == {"UnicodeDecodeError", "OSError"}

\* the suffixes hydrated if the test of line 90 were the one of hydrate_files
hydrated_suffixes_with_js ==
    { <<".","p","y">>, <<".","t","s">>, <<".","t","s","x">>, <<".","j","s">> }

\* the suffixes build_repo_model hydrates (file_path.suffix, case kept)
hydrated_suffixes == { <<".","p","y">>, <<".","t","s">>, <<".","t","s","x">> }

\* the sub-directories of d when line 42 filters nothing out
AllDirs(d) == Listing(DirsIn(tree, d), scan_order)

\* "dirs[:] = [d for d in dirs if not _should_exclude_directory(d)]"
PrunedDirs(d) ==
    LET Kept(n) == ~_should_exclude_directory(n)
    IN  SelectSeq(Listing(DirsIn(tree, d), scan_order), Kept)

\* "any(_should_exclude_directory(part) for part in relative_current_dir.parts)"
InExcludedDir(d) == \E i \in 1..Len(d) : _should_exclude_directory(d[i])

\* os.walk, top down: the subdirectories kept are visited next, in order
WalkNext(d) == [i \in 1..Len(PrunedDirs(d)) |-> Append(d, PrunedDirs(d)[i])] \o Tail(stack)

Init ==
    /\ root_exists \in BOOLEAN
    /\ tree \in (IF root_exists THEN Trees ELSE {{}})
    /\ text \in TextMaps(tree)
    /\ scan_order \in (IF tree = {} THEN {"asc"} ELSE {"asc", "desc"})
    /\ read_errors = {}
    /\ pc = "start"
    /\ stack = <<>>
    /\ cur_dir = <<>>
    /\ cur_files = <<>>
    /\ all_file_paths = {}
    /\ directories = {}
    /\ files_map = <<>>
    /\ repo = None
    /\ error = "none"
    /\ earlier = <<>>
    /\ readme_path = <<>>
    /\ NoStream

\* lines 34-37 without the test of lines 31-32
StartUnchecked ==
    /\ pc = "start"
    /\ UNCHANGED <<earlier, readme_path, stream_vars>>
    /\ pc' = "discovery"
    /\ stack' = <<<<>>>>
    /\ UNCHANGED <<root_exists, tree, text, scan_order, read_errors, cur_dir,
                   cur_files, all_file_paths, directories, files_map, repo, error>>

\* lines 31-37
Start ==
    /\ pc = "start"
    /\ UNCHANGED <<earlier, readme_path, stream_vars>>
    /\ IF ~root_exists
       THEN /\ pc' = "raised"
            /\ error' = "ValueError: Path does not exist"
            /\ stack' = stack
       ELSE /\ pc' = "discovery"
            /\ error' = error
            /\ stack' = <<<<>>>>
    /\ UNCHANGED <<root_exists, tree, text, scan_order, read_errors, cur_dir,
                   cur_files, all_file_paths, directories, files_map, repo>>

\* lines 40-55: one iteration of the first os.walk loop
Discover ==
    /\ pc = "discovery"
    /\ UNCHANGED <<earlier, readme_path, stream_vars>>
    /\ stack # <<>>
    /\ LET d == Head(stack)
           names == Listing(FilesIn(tree, d), scan_order)
           Included(n) == _should_include_file(RootPath \o d \o <<n>>, RootPath).val
           found == {PathStr(Append(d, names[i])) :
                        i \in {k \in 1..Len(names) : Included(names[k])}}
       IN  /\ stack' = WalkNext(d)
           /\ IF InExcludedDir(d)
              THEN UNCHANGED <<directories, all_file_paths>>
              ELSE /\ directories' = directories \cup {PrunedDirs(d)[i] : i \in 1..Len(PrunedDirs(d))}
                   /\ all_file_paths' = all_file_paths \cup found
    /\ UNCHANGED <<root_exists, tree, text, scan_order, read_errors, pc, cur_dir,
                   cur_files, files_map, repo, error>>

\* the second walk begins whether or not the first is over
BeginHydrationEarly ==
    /\ pc = "discovery"
    /\ UNCHANGED <<earlier, readme_path, stream_vars>>
    /\ pc' = "hydration"
    /\ stack' = <<<<>>>>
    /\ UNCHANGED <<root_exists, tree, text, scan_order, read_errors, cur_dir,
                   cur_files, all_file_paths, directories, files_map, repo, error>>

\* line 58: the first walk is over, the second begins
BeginHydration ==
    /\ pc = "discovery"
    /\ UNCHANGED <<earlier, readme_path, stream_vars>>
    /\ stack = <<>>
    /\ pc' = "hydration"
    /\ stack' = <<<<>>>>
    /\ UNCHANGED <<root_exists, tree, text, scan_order, read_errors, cur_dir,
                   cur_files, all_file_paths, directories, files_map, repo, error>>

\* lines 58-68: one iteration of the second os.walk loop, up to its file loop
WalkDir ==
    /\ pc = "hydration"
    /\ UNCHANGED <<earlier, readme_path, stream_vars>>
    /\ cur_files = <<>>
    /\ stack # <<>>
    /\ LET d == Head(stack)
       IN  /\ stack' = WalkNext(d)
           /\ cur_dir' = d
           /\ cur_files' = IF InExcludedDir(d) THEN <<>>
                           ELSE Listing(FilesIn(tree, d), scan_order)
    /\ UNCHANGED <<root_exists, tree, text, scan_order, read_errors, pc,
                   all_file_paths, directories, files_map, repo, error>>

\* the outcomes of opening and reading file f: "ok", or the error raised;
\* a file read before fails again the same way, and at most MaxUnreadable
\* files of a tree cannot be read
ReadOutcomes(f) ==
    IF \E r \in read_errors : r.file = f
    THEN {r.err : r \in {q \in read_errors : q.file = f}}
    ELSE {"ok"} \cup (IF Cardinality(read_errors) < MaxUnreadable
                      THEN {"UnicodeDecodeError", "OSError"} ELSE {})

\* lines 75-82: line_count of a file whose read ends with `outcome`
CountLines(content, outcome) ==
    IF outcome = "ok" THEN Ok(LineCount(content))
    ELSE IF outcome \in CaughtReadErrors THEN Ok(0)
    ELSE Raise(outcome)

\* lines 84-104 without the suffix test of line 85: an extractor is run on
\* every file that was read
HydrateAny(content, outcome, file_path, root_path, all_files) ==
    IF outcome = "ok" THEN _extract_python_info(content, file_path, root_path, all_files)
    ELSE IF outcome \in CaughtReadErrors THEN Extracted(<<>>, <<>>, <<>>, None)
    ELSE ExtractRaise(outcome)

\* lines 84-104: (temp_dep_paths, imports, functions, file_description) of a
\* file whose read ends with `outcome`
Hydrate(content, outcome, file_path, root_path, all_files) ==
    IF PathSuffix(file_path) \in hydrated_suffixes
    THEN IF outcome = "ok" THEN hydrate_files(content, file_path, root_path, all_files)
         ELSE IF outcome \in CaughtReadErrors THEN Extracted(<<>>, <<>>, <<>>, None)
         ELSE ExtractRaise(outcome)
    ELSE Extracted(<<>>, <<>>, <<>>, None)

\* the File object if the dependencies were put with its imports
MakeFileWithDependencies(relative_path, line_count, h, file_path) ==
    File(relative_path, line_count, h.imports \o h.dependencies, h.functions,
         h.description, AbsPathStr(file_path), h.dependencies)

\* lines 106-119: the File object
MakeFile(relative_path, line_count, h, file_path) ==
    File(relative_path, line_count, h.imports, h.functions, h.description,
         AbsPathStr(file_path), h.dependencies)

\* lines 68-119: one iteration of the file loop of the second walk
ProcessFile ==
    /\ pc = "hydration"
    /\ UNCHANGED <<earlier, readme_path, stream_vars>>
    /\ cur_files # <<>>
    /\ LET rel == Append(cur_dir, Head(cur_files))
           file_path == RootPath \o rel
           relative_path == PathStr(RelativeTo(file_path, RootPath).val)
       IN  \/ \* line 70: the file is filtered out
              /\ ~_should_include_file(file_path, RootPath).val
              /\ cur_files' = Tail(cur_files)
              /\ UNCHANGED <<read_errors, pc, files_map, error>>
           \/ \* the file is analysed and recorded
              /\ _should_include_file(file_path, RootPath).val
              /\ \E outcome \in ReadOutcomes(rel) :
                 \E line_count \in {CountLines(text[rel], outcome)} :
                 \E h \in {Hydrate(text[rel], outcome, file_path, RootPath, all_file_paths)} :
                    /\ read_errors' = IF outcome = "ok" THEN read_errors
                                      ELSE read_errors \cup {[file |-> rel, err |-> outcome]}
                    /\ IF line_count.ok /\ h.ok
                       THEN /\ files_map' = DictSet(files_map, relative_path,
                                                    MakeFile(relative_path, line_count.val, h, file_path))
                            /\ cur_files' = Tail(cur_files)
                            /\ UNCHANGED <<pc, error>>
                       ELSE \* an exception no handler catches leaves build_repo_model
                            /\ pc' = "raised"
                            /\ error' = IF line_count.ok THEN h.err ELSE line_count.err
                            /\ UNCHANGED <<files_map, cur_files>>
    /\ UNCHANGED <<root_exists, tree, text, scan_order, stack, cur_dir,
                   all_file_paths, directories, repo>>

\* line 128: Path(file_obj.name).name.lower()
BaseNameLower(file_obj) == StrLower(PathName(PathParts(file_obj.name)))

\* lines 131-142 with the manifest names compared as they stand
BucketExactName(file_obj) ==
    IF StartsWith(BaseNameLower(file_obj), s_readme) THEN "readme"
    ELSE IF PathName(PathParts(file_obj.name)) \in package_file_names THEN "package_files"
    ELSE "files"

\* lines 131-142: the bucket of a File
Bucket(file_obj) ==
    IF StartsWith(BaseNameLower(file_obj), s_readme) THEN "readme"
    ELSE IF BaseNameLower(file_obj) \in package_file_names THEN "package_files"
    ELSE "files"

\* the Files of files_map.values() that fall in bucket b, in order
InBucket(m, b) ==
    LET Is(file_obj) == Bucket(file_obj) = b
    IN  SelectSeq(m, Is)

\* line 148 with types/files.py line 48: `directories` is a set and the field
\* a list[str], so the list holds the set's elements in the order the set
\* iterates them, which depends on the hash seed of the process
Orderings(S) ==
    {q \in [1..Cardinality(S) -> S] : \A i, j \in 1..Cardinality(S) : q[i] = q[j] => i = j}

\* lines 122-149: the files are put in their buckets and the Repo is returned
Categorize ==
    /\ pc = "hydration"
    /\ UNCHANGED <<earlier, readme_path, stream_vars>>
    /\ cur_files = <<>>
    /\ stack = <<>>
    /\ \E dirs \in Orderings(directories) :
          repo' = Repo(InBucket(files_map, "readme"), InBucket(files_map, "files"),
                       InBucket(files_map, "package_files"), dirs)
    /\ pc' = "done"
    /\ UNCHANGED <<root_exists, tree, text, scan_order, read_errors, stack, cur_dir,
                   cur_files, all_file_paths, directories, files_map, error>>

Next ==
    \/ Start
    \/ Discover
    \/ BeginHydration
    \/ WalkDir
    \/ ProcessFile
    \/ Categorize

Spec == Init /\ [][Next]_vars

\* build_repo_model on a tree of one file of `files`, whose text is varied
InitExtract(files) ==
    /\ root_exists = TRUE
    /\ tree \in {{f} : f \in files}
    /\ text \in UNION {[{f} -> ExtractTexts(f)] : f \in files}
    /\ DOMAIN text = tree
    /\ scan_order = "asc"
    /\ read_errors = {}
    /\ pc = "start"
    /\ stack = <<>>
    /\ cur_dir = <<>>
    /\ cur_files = <<>>
    /\ all_file_paths = {}
    /\ directories = {}
    /\ files_map = <<>>
    /\ repo = None
    /\ error = "none"
    /\ earlier = <<>>
    /\ readme_path = <<>>
    /\ NoStream

InitPython == InitExtract(PythonTreeFiles)

SpecPython == InitPython /\ [][Next]_vars

InitTs == InitExtract(TsTreeFiles)

SpecTs == InitTs /\ [][Next]_vars

InitBoth == InitExtract(PythonTreeFiles \cup TsTreeFiles)

SpecBoth == InitBoth /\ [][Next]_vars

\* find_readme(path) is called: os.walk(path) is about to list the root, or
\* nothing when the path does not exist. The tree is any set of these files:
\* README.md, my_readme.md, b/readme.txt, b/x.py, b/d/README.rst, c/ReadMe,
\* readme/x.py.
InitReadme ==
    /\ root_exists \in BOOLEAN
    /\ tree \in (IF root_exists
                 THEN SUBSET { PathParts(<<"R","E","A","D","M","E",".","m","d">>),
          PathParts(<<"m","y","_","r","e","a","d","m","e",".","m","d">>),
          PathParts(<<"b","/","r","e","a","d","m","e",".","t","x","t">>),
          PathParts(<<"b","/","x",".","p","y">>),
          PathParts(<<"b","/","d","/","R","E","A","D","M","E",".","r","s","t">>),
          PathParts(<<"c","/","R","e","a","d","M","e">>),
          PathParts(<<"r","e","a","d","m","e","/","x",".","p","y">>) }
                 ELSE {{}})
    /\ text = [g \in tree |-> s_plain_text]
    /\ scan_order \in (IF tree = {} THEN {"asc"} ELSE {"asc", "desc"})
    /\ read_errors = {}
    /\ pc = "readme_walk"
    /\ stack = IF root_exists THEN <<<<>>>> ELSE <<>>
    /\ cur_dir = <<>>
    /\ cur_files = <<>>
    /\ all_file_paths = {}
    /\ directories = {}
    /\ files_map = <<>>
    /\ repo = None
    /\ error = "none"
    /\ earlier = <<>>
    /\ readme_path = <<>>
    /\ NoStream

\* line 13: os.walk yields the next directory, top down; its subdirectories,
\* none left out, are visited next, in order
find_readme_walk ==
    /\ pc = "readme_walk"
    /\ cur_files = <<>>
    /\ stack # <<>>
    /\ cur_dir' = Head(stack)
    /\ cur_files' = Listing(FilesIn(tree, Head(stack)), scan_order)
    /\ stack' = [i \in 1..Cardinality(DirsIn(tree, Head(stack))) |->
                    Append(Head(stack), Listing(DirsIn(tree, Head(stack)), scan_order)[i])]
                 \o Tail(stack)
    /\ UNCHANGED <<root_exists, tree, text, scan_order, read_errors, pc, all_file_paths,
                   directories, files_map, repo, error, earlier, readme_path, stream_vars>>

\* lines 14-17 with the name tested as it is written
find_readme_file_exact ==
    /\ pc = "readme_walk"
    /\ cur_files # <<>>
    /\ IF StartsWith(Head(cur_files), s_readme)
       THEN /\ readme_path' = PathStr(RelativeTo(RootPath \o Append(cur_dir, Head(cur_files)),
                                                RootPath).val)
            /\ pc' = "returned"
            /\ cur_files' = cur_files
       ELSE /\ cur_files' = Tail(cur_files)
            /\ UNCHANGED <<pc, readme_path>>
    /\ UNCHANGED <<root_exists, tree, text, scan_order, read_errors, stack, cur_dir,
                   all_file_paths, directories, files_map, repo, error, earlier, stream_vars>>

\* lines 14-17: one iteration of the file loop
find_readme_file ==
    /\ pc = "readme_walk"
    /\ cur_files # <<>>
    /\ IF StartsWith(StrLower(Head(cur_files)), s_readme)
       THEN /\ readme_path' = PathStr(RelativeTo(RootPath \o Append(cur_dir, Head(cur_files)),
                                                RootPath).val)
            /\ pc' = "returned"
            /\ cur_files' = cur_files
       ELSE /\ cur_files' = Tail(cur_files)
            /\ UNCHANGED <<pc, readme_path>>
    /\ UNCHANGED <<root_exists, tree, text, scan_order, read_errors, stack, cur_dir,
                   all_file_paths, directories, files_map, repo, error, earlier, stream_vars>>

\* line 18: the walk is over and no file was returned
find_readme_none ==
    /\ pc = "readme_walk"
    /\ cur_files = <<>>
    /\ stack = <<>>
    /\ readme_path' = None
    /\ pc' = "returned"
    /\ UNCHANGED <<root_exists, tree, text, scan_order, read_errors, stack, cur_dir,
                   cur_files, all_file_paths, directories, files_map, repo, error, earlier,
                   stream_vars>>

NextReadme ==
    \/ find_readme_walk
    \/ find_readme_file
    \/ find_readme_none

SpecReadme == InitReadme /\ [][NextReadme]_vars

\* build_repo_model is called a second time on the same tree (lines 21-37 of
\* a new call): the Repo of the first call is kept aside, the locals are new,
\* and the files that could not be read still cannot
RunAgain ==
    /\ pc = "done"
    /\ earlier = <<>>
    /\ earlier' = <<repo>>
    /\ repo' = None
    /\ pc' = "start"
    /\ stack' = <<>>
    /\ cur_dir' = <<>>
    /\ cur_files' = <<>>
    /\ all_file_paths' = {}
    /\ directories' = {}
    /\ files_map' = <<>>
    /\ UNCHANGED <<root_exists, tree, text, scan_order, read_errors, error, readme_path,
                   stream_vars>>

NextTwice ==
    \/ Next
    \/ RunAgain

SpecTwice == Init /\ [][NextTwice]_vars

\* ------------------------------------------------------------------ properties

\* ------------------------------------------------------------------ analyze.py
\* generate_analysis_stream and download_github_repo.  root_exists is
\* os.path.exists("/tmp/repo/" + job.repo_name) and tree the files of the
\* repository; a branch name is a string, "" standing for a default_branch
\* that is None or empty.

\* the models of get_models_by_analyze_job_id
ModelKinds == {"repo", "overview", "auth", "data", "entry_points"}

\* the branches a job names, and the branches GitHub may serve
JobBranches == {"", "main", "master", "dev"}
RemoteBranches == {"main", "master"}

\* the names of the repositories analysed
RepoNames == { <<"a","p","p">>, <<"k","i","t">> }

\* the URLs of the repository `name` of owner o, with and without `.git`
UrlsOf(name) == { <<"o","/">> \o name, <<"o","/">> \o name \o <<".","g","i","t">> }

\* one event of the stream: `data: {"event_type": ..., "message": ...}`
Event(event_type, message) == [event_type |-> event_type, message |-> message]

\* lines 38-41: the repository name download_github_repo requests
ParsedRepo(github_url) ==
    LET parts == Split(RStripSet(github_url, {".", "g", "i", "t"}), "/")
    IN  parts[Len(parts)]

\* line 128: `job.default_branch or "main"`
DefaultBranch == IF job.default_branch # "" THEN job.default_branch ELSE "main"

\* find_readme on "/tmp/repo/" + job.repo_name: os.walk of a path that does
\* not exist yields nothing
HasReadme ==
    root_exists /\ \E g \in tree : StartsWith(StrLower(PathName(g)), s_readme)

ReadmeEvent == Event("readme", IF HasReadme THEN "has_readme" ELSE "no_readme")

\* all but root_exists of the state of the analyzer
analyzer_vars == <<tree, text, scan_order, read_errors, pc, stack, cur_dir, cur_files,
                   all_file_paths, directories, files_map, repo, error, earlier,
                   readme_path>>

InitStream ==
    /\ root_exists \in BOOLEAN
    /\ tree \in {{}, TreeScenario}
    /\ text = [g \in tree |-> s_plain_text]
    /\ scan_order = "asc"
    /\ read_errors = {}
    /\ pc = "start"
    /\ stack = <<>>
    /\ cur_dir = <<>>
    /\ cur_files = <<>>
    /\ all_file_paths = {}
    /\ directories = {}
    /\ files_map = <<>>
    /\ repo = None
    /\ error = "none"
    /\ earlier = <<>>
    /\ readme_path = <<>>
    /\ \E name \in RepoNames : \E url \in UrlsOf(name) : \E branch \in JobBranches :
          job = [github_url |-> url, repo_name |-> name, default_branch |-> branch]
    /\ stored \in SUBSET ModelKinds
    /\ remote \in SUBSET RemoteBranches
    /\ stream_pc = "start"
    /\ events = <<>>
    /\ requested = <<>>
    /\ download_outcome = "none"

\* lines 187-189: the exception of a step is caught, the error event is
\* emitted and the generator returns
StreamError(message) ==
    /\ events' = Append(events, Event("error", message))
    /\ stream_pc' = "closed"

\* line 94
StreamStart ==
    /\ stream_pc = "start"
    /\ events' = Append(events, Event("start", ""))
    /\ stream_pc' = "lookup"
    /\ UNCHANGED <<root_exists, analyzer_vars, job, stored, remote, requested,
                   download_outcome>>

\* lines 97-123: the models of the job are looked up; when all five are there
\* their data is replayed and the stream completes
Lookup ==
    /\ stream_pc = "lookup"
    /\ \E outcome \in {"ok", "raised"} :
          IF outcome = "raised" THEN StreamError("get_models_by_analyze_job_id")
          ELSE IF stored = ModelKinds
          THEN /\ events' = events \o
                      << Event("overview", ""), Event("entry_points", ""),
                         Event("auth_analysis", ""), Event("data_model_analysis", ""),
                         ReadmeEvent, Event("completed", "") >>
               /\ stream_pc' = "closed"
          ELSE /\ stream_pc' = "exists"
               /\ UNCHANGED events
    /\ UNCHANGED <<root_exists, analyzer_vars, job, stored, remote, requested,
                   download_outcome>>

\* lines 126-128: download_github_repo is called when the path does not exist
CheckDownloaded ==
    /\ stream_pc = "exists"
    /\ stream_pc' = IF root_exists THEN "readme" ELSE "download"
    /\ UNCHANGED <<root_exists, analyzer_vars, job, stored, remote, events, requested,
                   download_outcome>>

\* download_github_repo, lines 38-69: the archive of the branch is requested,
\* unpacked and moved to the destination
DownloadTry ==
    /\ stream_pc = "download"
    /\ requested' = Append(requested, [repo |-> ParsedRepo(job.github_url),
                                       branch |-> DefaultBranch])
    /\ IF ParsedRepo(job.github_url) = job.repo_name /\ DefaultBranch \in remote
       THEN /\ root_exists' = TRUE
            /\ download_outcome' = "returned"
            /\ stream_pc' = "readme"
       ELSE /\ stream_pc' = "download_except"
            /\ UNCHANGED <<root_exists, download_outcome>>
    /\ UNCHANGED <<analyzer_vars, job, stored, remote, events>>

\* download_github_repo, lines 71-79: the handler of a failed download; the
\* call of line 75 is not awaited, so it makes a coroutine object that never
\* runs and raises nothing
DownloadExcept ==
    /\ stream_pc = "download_except"
    /\ IF DefaultBranch = "main"
       THEN /\ download_outcome' = "returned"
            /\ stream_pc' = "readme"
            /\ UNCHANGED events
       ELSE /\ download_outcome' = "raised"
            /\ StreamError("Failed to download repository")
    /\ UNCHANGED <<root_exists, analyzer_vars, job, stored, remote, requested>>

\* lines 131-135
Readme ==
    /\ stream_pc = "readme"
    /\ events' = Append(events, ReadmeEvent)
    /\ stream_pc' = "build"
    /\ UNCHANGED <<root_exists, analyzer_vars, job, stored, remote, requested,
                   download_outcome>>

\* line 138: build_repo_model returns a Repo or raises, and raises when the
\* path does not exist
Build ==
    /\ stream_pc = "build"
    /\ \E outcome \in (IF root_exists THEN {"ok", "raised"} ELSE {"raised"}) :
          IF outcome = "raised" THEN StreamError("build_repo_model")
          ELSE stream_pc' = "upsert_repo" /\ UNCHANGED events
    /\ UNCHANGED <<root_exists, analyzer_vars, job, stored, remote, requested,
                   download_outcome>>

\* database/db.py: an upsert stores the model; when it fails it rolls back
\* and returns None, and raises only if the rollback fails
Upsert(kind, outcome, next_pc, event) ==
    /\ stored' = IF outcome = "ok" THEN stored \cup {kind} ELSE stored
    /\ IF outcome = "raised" THEN StreamError("rollback")
       ELSE /\ events' = events \o event
            /\ stream_pc' = next_pc

\* line 139
UpsertRepo ==
    /\ stream_pc = "upsert_repo"
    /\ \E outcome \in {"ok", "failed", "raised"} : Upsert("repo", outcome, "overview", <<>>)
    /\ UNCHANGED <<root_exists, analyzer_vars, job, remote, requested, download_outcome>>

\* lines 142-143
Overview ==
    /\ stream_pc = "overview"
    /\ \E outcome \in {"ok", "raised"} :
          IF outcome = "raised" THEN StreamError("get_repo_overview")
          ELSE /\ events' = Append(events, Event("overview", ""))
               /\ stream_pc' = "upsert_overview"
    /\ UNCHANGED <<root_exists, analyzer_vars, job, stored, remote, requested,
                   download_outcome>>

\* line 144
UpsertOverview ==
    /\ stream_pc = "upsert_overview"
    /\ \E outcome \in {"ok", "failed", "raised"} : Upsert("overview", outcome, "gather", <<>>)
    /\ UNCHANGED <<root_exists, analyzer_vars, job, remote, requested, download_outcome>>

\* lines 150-157: the three agents run; gather raises when one of them does
Gather ==
    /\ stream_pc = "gather"
    /\ \E outcome \in {"ok", "raised"} :
          IF outcome = "raised" THEN StreamError("gather")
          ELSE stream_pc' = "entry_points" /\ UNCHANGED events
    /\ UNCHANGED <<root_exists, analyzer_vars, job, stored, remote, requested,
                   download_outcome>>

\* lines 160-164
task_names == <<"entry_points", "auth_analysis", "data_model_analysis">>

\* the model each task stores
TaskKind(task_name) ==
    IF task_name = "entry_points" THEN "entry_points"
    ELSE IF task_name = "auth_analysis" THEN "auth" ELSE "data"

\* lines 166-181: one iteration of the loop over the results: the result is
\* stored, then its event is emitted
Task ==
    /\ \E k \in 1..Len(task_names) :
          /\ stream_pc = task_names[k]
          /\ \E outcome \in {"ok", "failed", "raised"} :
                Upsert(TaskKind(task_names[k]), outcome,
                       IF k < Len(task_names) THEN task_names[k + 1] ELSE "completed",
                       <<Event(task_names[k], "")>>)
    /\ UNCHANGED <<root_exists, analyzer_vars, job, remote, requested, download_outcome>>

\* line 184
Completed ==
    /\ stream_pc = "completed"
    /\ events' = Append(events, Event("completed", ""))
    /\ stream_pc' = "commit"
    /\ UNCHANGED <<root_exists, analyzer_vars, job, stored, remote, requested,
                   download_outcome>>

\* line 185: the commit that follows the completed event
Commit ==
    /\ stream_pc = "commit"
    /\ \E outcome \in {"ok", "raised"} :
          IF outcome = "raised" THEN StreamError("commit")
          ELSE stream_pc' = "closed" /\ UNCHANGED events
    /\ UNCHANGED <<root_exists, analyzer_vars, job, stored, remote, requested,
                   download_outcome>>

NextStream ==
    \/ StreamStart
    \/ Lookup
    \/ CheckDownloaded
    \/ DownloadTry
    \/ DownloadExcept
    \/ Readme
    \/ Build
    \/ UpsertRepo
    \/ Overview
    \/ UpsertOverview
    \/ Gather
    \/ Task
    \/ Completed
    \/ Commit

SpecStream == InitStream /\ [][NextStream]_vars

\* a text without regard to case
CaseFold(s) == [i \in 1..Len(s) |-> LowerChar(s[i])]

\* the base name of a root-relative path given as a str
BaseName(name) == PathName(PathParts(name))

\* the names of the Files of a list
NamesOf(fs) == {fs[i].name : i \in 1..Len(fs)}

\* every File of the Repo returned, readme first
RepoFiles == repo.readme \o repo.files \o repo.package_files

\* the files of the tree that lie beneath an excluded directory
BeneathExcluded ==
    {g \in tree : \E i \in 1..(Len(g) - 1) : CaseFold(g[i]) \in excluded_dirs}

\* C1: for every existing root path build_repo_model returns a Repo; no file
\* content and no read failure makes the scan raise, so the scan is left by
\* an exception only when the root path does not exist.
C1_OnlyMissingRootRaises == pc = "raised" => ~root_exists

\* C2: no file beneath a directory whose name is, without regard to case, an
\* excluded name, at any depth of its ancestors, is recorded by the scan or
\* appears in readme, files or package_files of the Repo returned.
C2_NothingBeneathExcluded ==
    /\ \A g \in BeneathExcluded : PathStr(g) \notin NamesOf(files_map)
    /\ pc = "done" => \A g \in BeneathExcluded : PathStr(g) \notin NamesOf(RepoFiles)

\* C2 happens: a scan has returned a Repo with files in it for a tree that
\* holds eligible files beneath excluded directories, at the top (Tests, in
\* capitals) and deeper down (pkg/node_modules/deep).
C2_Witness ==
    /\ pc = "done"
    /\ RepoFiles # <<>>
    /\ \E g \in BeneathExcluded : Len(g) = 2 /\ g[1] \notin excluded_dirs
                                  /\ PathSuffix(g) = s_dot_py
    /\ \E g \in BeneathExcluded : Len(g) = 4 /\ PathSuffix(g) = s_dot_py

\* the bucket C3 gives a base name, a manifest name being recognised as it
\* stands (exact) or without regard to case
ClaimedBucket(base, exact) ==
    IF StartsWith(CaseFold(base), s_readme) THEN "readme"
    ELSE IF (IF exact THEN base ELSE CaseFold(base)) \in package_file_names
         THEN "package_files"
    ELSE "files"

\* the three buckets partition the discovered files, and each File lies in
\* the bucket ClaimedBucket gives its base name
Partitioned(exact) ==
    pc = "done" =>
        /\ \A i, j \in 1..Len(RepoFiles) :
              RepoFiles[i].name = RepoFiles[j].name => i = j
        /\ NamesOf(RepoFiles) = all_file_paths
        /\ \A n \in NamesOf(repo.readme) :
              ClaimedBucket(BaseName(n), exact) = "readme"
        /\ \A n \in NamesOf(repo.files) :
              ClaimedBucket(BaseName(n), exact) = "files"
        /\ \A n \in NamesOf(repo.package_files) :
              ClaimedBucket(BaseName(n), exact) = "package_files"

\* C3 as stated: the buckets partition the discovered files; a base name
\* that starts with "readme" without regard to case goes to readme, otherwise
\* a base name equal to a manifest name goes to package_files, and every
\* other file goes to files.
C3_AsStated == Partitioned(TRUE)

\* C3, amended: as above, with a manifest name recognised without regard to
\* case; and the tree of README.md and main.py yields readme = [README.md],
\* files = [main.py], package_files = [], main.py without functions.
C3_Partition ==
    /\ Partitioned(FALSE)
    /\ (pc = "done" /\ tree = TreeScenario) =>
              /\ Len(repo.readme) = 1 /\ Len(repo.files) = 1
              /\ repo.readme[1].name = <<"R","E","A","D","M","E",".","m","d">>
              /\ repo.files[1].name = <<"m","a","i","n",".","p","y">>
              /\ repo.package_files = <<>>
              /\ repo.files[1].functions = <<>>

\* C3 happens: a Repo has been returned with Files in all three buckets, a
\* manifest in capitals among the package files.
C3_Witness ==
    /\ pc = "done"
    /\ repo.readme # <<>> /\ repo.files # <<>>
    /\ \E n \in NamesOf(repo.package_files) : BaseName(n) \notin package_file_names

\* C4: no File whose base name starts with "test" is recorded by the scan or
\* appears in the Repo returned, even when its extension is eligible.
C4_NoTestFiles ==
    /\ \A n \in NamesOf(files_map) : ~StartsWith(BaseName(n), s_test)
    /\ pc = "done" => \A n \in NamesOf(RepoFiles) : ~StartsWith(BaseName(n), s_test)

\* the files whose reads have all succeeded so far
Readable == {g \in tree : \A r \in read_errors : r.file # g}

\* the File recorded for the file g of the tree
Recorded(g) == \E i \in 1..Len(files_map) : files_map[i].name = PathStr(g)
FileOf(g) == files_map[CHOOSE i \in 1..Len(files_map) : files_map[i].name = PathStr(g)]

\* the file whose processing was left by an exception
Raising(g) == pc = "raised" /\ cur_files # <<>> /\ g = Append(cur_dir, Head(cur_files))

\* the dependencies of a file with one import: the first of the candidates
\* that is a known path, none when none is
FirstKnown(candidates) ==
    LET IsKnown(c) == c \in all_file_paths
        Hits(known) == IF known = <<>> THEN <<>> ELSE <<known[1]>>
    IN  Hits(SelectSeq(candidates, IsKnown))

s_from_dot_m == <<"f","r","o","m"," ",".","m"," ","i","m","p","o","r","t"," ","x">>
s_from_dot_import_b == <<"f","r","o","m"," ","."," ","i","m","p","o","r","t"," ","b">>
s_m == <<"m">>
s_b_py == <<"b",".","p","y">>

\* C5: a Python file in directory D whose text is `from .m import x` has the
\* dependency D/m.py if that is a known path, else D/m/__init__.py if that
\* is a known path, else none: one leading dot anchors the import at the
\* directory of the importing file.
C5_OneDotIsSameDirectory ==
    \A g \in Readable :
        (Recorded(g) /\ PathSuffix(g) = s_dot_py /\ text[g] = s_from_dot_m) =>
            FileOf(g).temp_dep_paths =
                FirstKnown(<< PathStr(PathParent(g) \o <<s_m \o s_dot_py>>),
                              PathStr(PathParent(g) \o <<s_m, s_init_py>>) >>)

\* C6: in a tree with D/a.py whose text is `from . import b` and a file
\* D/b.py, the hydration of D/a.py completes and its dependencies are
\* exactly [D/b.py].
C6_FromDotImportSibling ==
    \A g \in Readable :
        (/\ PathSuffix(g) = s_dot_py
         /\ text[g] = s_from_dot_import_b
         /\ Append(PathParent(g), s_b_py) \in tree) =>
            /\ ~Raising(g)
            /\ Recorded(g) =>
                  FileOf(g).temp_dep_paths = <<PathStr(Append(PathParent(g), s_b_py))>>

\* the name p with the extension ext added to it
WithExtension(p, ext) == PathParent(p) \o <<PathName(p) \o ext>>

\* the candidates C7 lists for the import of import_path from the file g, in
\* order: p.ts, p.tsx, p.js, p/index.ts, p/index.tsx, p/index.js, where p is
\* import_path resolved against the directory of g
TsCandidates(g, import_path) ==
    LET Of(p) ==
            IF p = <<>> THEN <<>>
            ELSE [k \in 1..3 |-> PathStr(WithExtension(p, ts_extensions[k]))]
                 \o [k \in 1..3 |-> PathStr(Append(p, s_index \o ts_extensions[k]))]
    IN  Of(Resolve(PathJoin(PathParent(g), import_path)))

\* the TypeScript files recorded whose text is one import of a specifier
\* that starts with "."
OneRelativeImport ==
    {g \in Readable :
        /\ Recorded(g)
        /\ PathSuffix(g) \in {ts_extensions[1], ts_extensions[2]}
        /\ Find(text[g], "\n") = 0
        /\ MatchTsImport(text[g]).ok
        /\ StartsWith(MatchTsImport(text[g]).import_path, s_dot)}

\* C7: the dependency of a TS import of X, X starting with ".", is the first
\* of p.ts, p.tsx, p.js, p/index.ts, p/index.tsx, p/index.js that is a known
\* path, p being X resolved against the directory of the importing file.
C7_FirstCandidateKnown ==
    \A g \in OneRelativeImport :
        FileOf(g).temp_dep_paths =
            FirstKnown(TsCandidates(g, MatchTsImport(text[g]).import_path))

\* C8: every path import resolution returns is a known path, and an import
\* whose candidates match no known path yields no dependency and raises no
\* error: no scan is left by the ValueError of a candidate path.
C8_KnownOrNothing ==
    /\ \A i \in 1..Len(files_map) :
          \A k \in 1..Len(files_map[i].temp_dep_paths) :
              files_map[i].temp_dep_paths[k] \in all_file_paths
    /\ error # "ValueError"

\* the complete set of the included files of the tree, as root-relative strs
IncludedPaths ==
    {PathStr(g) : g \in {h \in tree : _should_include_file(RootPath \o h, RootPath).val}}

\* the File of the file g when it is read without failure and hydrated
\* against the complete set of included files
FileWhenRead(g) ==
    MakeFile(PathStr(g), LineCount(text[g]),
             Hydrate(text[g], "ok", RootPath \o g, RootPath, IncludedPaths),
             RootPath \o g)

s_from_src_b == <<"f","r","o","m"," ","s","r","c",".","b"," ","i","m","p","o","r","t"," ","x">>
s_src_b_py == <<"s","r","c","/","b",".","p","y">>

\* C9: the discovery pass has visited the whole tree before the first file is
\* hydrated: from the start of the second pass on, the known paths are the
\* complete set of the included files, so that in the Repo returned
\* `from src.b import x` has resolved to src/b.py wherever src/b.py stands in
\* the order of traversal.
C9_DiscoveryBeforeHydration ==
    /\ (pc \in {"hydration", "done"} \/ files_map # <<>>) => all_file_paths = IncludedPaths
    /\ pc = "done" =>
          \A g \in Readable :
              (/\ Recorded(g)
               /\ PathSuffix(g) = s_dot_py
               /\ text[g] = s_from_src_b
               /\ PathParts(s_src_b_py) \in tree) =>
                  FileOf(g).temp_dep_paths = <<s_src_b_py>>

\* C9 happens: a Repo has been returned in which a file depends on a file
\* that was hydrated after it.
C9_Witness ==
    /\ pc = "done"
    /\ \E i, j \in 1..Len(files_map) :
          /\ i < j
          /\ files_map[i].temp_dep_paths = <<files_map[j].name>>

\* C10: a file that passes the filter and cannot be read is still recorded,
\* with number_of_lines = 0, no imports, no functions and no description; the
\* read failure does not end the scan, and in the Repo returned every other
\* file is recorded as it is without the failure.
C10_UnreadableDegrades ==
    /\ \A r \in read_errors :
          Recorded(r.file) =>
              /\ FileOf(r.file).number_of_lines = 0
              /\ FileOf(r.file).imports = <<>>
              /\ FileOf(r.file).functions = <<>>
              /\ FileOf(r.file).description = None
    /\ pc = "done" => \A r \in read_errors : Recorded(r.file)
    /\ pc = "raised" => error \notin {"UnicodeDecodeError", "OSError"}
    /\ pc = "done" => \A g \in Readable : Recorded(g) => FileOf(g) = FileWhenRead(g)

\* C10 happens: a Repo has been returned that holds a Python or TypeScript
\* file that could not be read and, recorded after it, a file with lines.
C10_Witness ==
    /\ pc = "done"
    /\ \E r \in read_errors :
          /\ PathStr(r.file) \in NamesOf(RepoFiles)
          /\ PathSuffix(r.file) \in hydrated_suffixes
          /\ \E i, j \in 1..Len(files_map) :
                /\ i < j
                /\ files_map[i].name = PathStr(r.file)
                /\ files_map[j].number_of_lines > 0

\* C11: called with a path that does not exist, build_repo_model fails with
\* the error of lines 31-32 before any traversal: no directory is walked,
\* nothing is collected or recorded, and no Repo is returned.
C11_MissingRootFails ==
    ~root_exists =>
        /\ pc \in {"start", "raised"}
        /\ pc = "raised" => error = "ValueError: Path does not exist"
        /\ stack = <<>> /\ cur_files = <<>>
        /\ all_file_paths = {} /\ directories = {} /\ files_map = <<>>
        /\ repo = None

\* C11 happens: the call with a missing path has failed.
C11_Witness == ~root_exists /\ pc = "raised"

\* C12: build_repo_model run twice on the same unmodified tree, every file
\* readable both times, returns two Repos equal in every field: the same Files
\* in each bucket and the same directories.
C12_SameRepoTwice ==
    (pc = "done" /\ earlier # <<>> /\ read_errors = {}) => repo = earlier[1]

\* C12, the part that does hold: the two Repos have the same Files in each
\* bucket and the same directories up to their order.
C12_SameUpToDirectoryOrder ==
    (pc = "done" /\ earlier # <<>> /\ read_errors = {}) =>
        /\ repo.readme = earlier[1].readme
        /\ repo.files = earlier[1].files
        /\ repo.package_files = earlier[1].package_files
        /\ {repo.directories[i] : i \in 1..Len(repo.directories)}
              = {earlier[1].directories[i] : i \in 1..Len(earlier[1].directories)}

\* C12 happens: a second call on a tree with several directories has returned.
C12_Witness ==
    /\ pc = "done" /\ earlier # <<>> /\ read_errors = {}
    /\ Len(repo.directories) > 1

\* the files of the tree no language extractor is meant for: those with
\* extension .md or .txt and those with a manifest name
OtherFiles ==
    {g \in tree :
        \/ CaseFold(PathSuffix(g)) \in { <<".","m","d">>, <<".","t","x","t">> }
        \/ CaseFold(PathName(g)) \in package_file_names}

\* C13: every included file whose extension is .md or .txt, or whose base
\* name is a manifest name, is in the Repo returned with functions = [] and
\* imports = [], whatever its content.
C13_NoExtractorOnOtherFiles ==
    pc = "done" =>
        \A g \in OtherFiles \ BeneathExcluded :
            \E i \in 1..Len(RepoFiles) :
                /\ RepoFiles[i].name = PathStr(g)
                /\ RepoFiles[i].functions = <<>>
                /\ RepoFiles[i].imports = <<>>

\* C13 happens: a Repo is returned that holds a .md file, read without
\* failure, whose text starts with an import line and goes on with a def line.
C13_Witness ==
    /\ pc = "done"
    /\ \E g \in OtherFiles \cap Readable :
          /\ PathSuffix(g) = <<".","m","d">>
          /\ StartsWith(text[g], s_import_sp)
          /\ Count(text[g], s_def) > 0

\* the Python files of the tree that were read without failure and recorded
PythonFilesRead == {g \in Readable : Recorded(g) /\ PathSuffix(g) = s_dot_py}

\* the lines of the file g that hold a signature the extractor records, and
\* the position in g's functions list of the Function of line i
SignatureLines(g) ==
    {i \in 1..Len(Split(text[g], "\n")) : MatchPythonDef(Strip(Split(text[g], "\n")[i])).ok}
FunctionIndex(g, i) == Cardinality({k \in SignatureLines(g) : k <= i})

\* the triple quote a line opens with, the empty text if it opens with none
OpeningQuote(l) ==
    IF StartsWith(l, s_dq3) THEN s_dq3
    ELSE IF StartsWith(l, s_sq3) THEN s_sq3
    ELSE <<>>

\* the positions after the opening quote where the triple quote q stands again
ClosingQuotes(l, q) == {k \in 4..Len(l) : LitAt(l, k, q)}

\* the text of the triple-quoted string that the line l opens with q and
\* closes: what lies between the opening quote and the next one
StringText(l, q) ==
    SubSeq(l, 4, (CHOOSE k \in ClosingQuotes(l, q) : \A m \in ClosingQuotes(l, q) : k <= m) - 1)

\* the descriptions the claim allows the function whose signature is line i
\* of `lines`: the text of the string, with or without the blanks at its ends,
\* or None, or any value where the claim is silent (a string opened and not
\* closed on its line)
ClaimedDescription(lines, i, actual) ==
    LET At(l, q) ==
            IF q = <<>> THEN {None}
            ELSE IF ClosingQuotes(l, q) = {} THEN {actual}
            ELSE {StringText(l, q), Strip(StringText(l, q))}
        Look(j) ==
            IF j > Len(lines) THEN {None}
            ELSE At(Strip(lines[j]), OpeningQuote(Strip(lines[j])))
    IN  Look(SkipBlankLines(lines, i + 1))

\* C14: in a Python file, the Function recorded for a def signature has the
\* identifier as name, the raw text between the parentheses as arguments, and
\* as description the text of the triple-quoted string, without the quote
\* markers, that the first non-blank line after the signature opens and closes
\* (blanks at the two ends of the text are not held against the code);
\* the description is absent when that line opens no triple-quoted string.
C14_DocstringIsStringText ==
    pc = "done" =>
        \A g \in PythonFilesRead : \A i \in SignatureLines(g) :
            LET lines == Split(text[g], "\n")
                m == MatchPythonDef(Strip(lines[i]))
                fns == FileOf(g).functions
                k == FunctionIndex(g, i)
            IN  /\ k <= Len(fns)
                /\ fns[k].name = m.name
                /\ fns[k].arguments = m.args
                /\ fns[k].description \in ClaimedDescription(lines, i, fns[k].description)

\* C14, what the code does: the description is the line with every quote
\* character of the opening kind taken off both ends, and then the blanks.
C14_DocstringIsStrippedLine ==
    pc = "done" =>
        \A g \in PythonFilesRead : \A i \in SignatureLines(g) :
            LET lines == Split(text[g], "\n")
                j == SkipBlankLines(lines, i + 1)
                d == FileOf(g).functions[FunctionIndex(g, i)].description
            IN  IF j > Len(lines) \/ OpeningQuote(Strip(lines[j])) = <<>> THEN d = None
                ELSE ClosingQuotes(Strip(lines[j]), OpeningQuote(Strip(lines[j]))) # {} =>
                        d = Strip(StripSet(Strip(lines[j]), {OpeningQuote(Strip(lines[j]))[1]}))

\* the TypeScript files of the tree that were read without failure and recorded
TsFilesRead ==
    {g \in Readable : Recorded(g) /\ PathSuffix(g) \in { <<".","t","s">>, <<".","t","s","x">> }}

\* the words that open a control-flow block
ControlWords == { <<"i","f">>, <<"f","o","r">>, <<"w","h","i","l","e">> }

\* a line `if (...) {`, `for (...) {` or `while (...) {`
IsControlFlowLine(l) ==
    /\ \E w \in ControlWords : StartsWith(Strip(l), w \o <<" ", "(">>)
    /\ EndsWith(Strip(l), <<"{">>)

\* C15: in a TS/JS file a line that opens a control-flow block `if (...) {`,
\* `for (...) {` or `while (...) {` produces no Function: no Function is named
\* if, for or while, and the file has no more Functions than it has other lines.
C15_NoControlFlowFunction ==
    pc = "done" =>
        \A g \in TsFilesRead :
            LET lines == Split(text[g], "\n")
                fns == FileOf(g).functions
            IN  /\ \A k \in 1..Len(fns) : fns[k].name \notin ControlWords
                /\ Len(fns) <= Cardinality({i \in 1..Len(lines) : ~IsControlFlowLine(lines[i])})

\* C15 happens: a TypeScript file with a control-flow line and a method was
\* analysed, and the method recorded.
C15_Witness ==
    /\ pc = "done"
    /\ \E g \in TsFilesRead :
          /\ \E i \in 1..Len(Split(text[g], "\n")) : IsControlFlowLine(Split(text[g], "\n")[i])
          /\ FileOf(g).functions # <<>>

\* the lines of a text: the pieces between its newlines, the empty piece after
\* a final newline (or of an empty text) not being a line
TextLines(c) ==
    Len(Split(c, "\n")) - (IF c = <<>> \/ c[Len(c)] = "\n" THEN 1 ELSE 0)

\* C16 as stated: for every readable file recorded, number_of_lines is the
\* number of newline-terminated lines of its content, and 0 for an unreadable
\* file.
C16_AsStated ==
    pc = "done" =>
        \A g \in tree : Recorded(g) =>
            FileOf(g).number_of_lines =
                (IF g \in Readable THEN Cardinality({i \in 1..Len(text[g]) : text[g][i] = "\n"})
                 ELSE 0)

\* C16: for every readable file recorded, number_of_lines is the number of
\* lines of its content, a last line without a newline at its end included;
\* it is 0 for an unreadable file.
C16_LinesCounted ==
    pc = "done" =>
        \A g \in tree : Recorded(g) =>
            FileOf(g).number_of_lines = (IF g \in Readable THEN TextLines(text[g]) ELSE 0)

\* C16 happens: a Repo is returned with a file whose last line has no newline
\* at its end, a file that ends with a newline and a file that cannot be read.
C16_Witness ==
    /\ pc = "done"
    /\ \E g \in Readable : Recorded(g) /\ text[g][Len(text[g])] # "\n"
    /\ \E g \in Readable : Recorded(g) /\ text[g][Len(text[g])] = "\n"
    /\ \E g \in tree \ Readable : Recorded(g)

\* the files of tree t whose base name starts with "readme", whatever the case
ReadmeNamed(t) == {g \in t : StartsWith(CaseFold(PathName(g)), s_readme)}

\* the files of tree t at and beneath the directory d in the order of a
\* top-down depth-first walk: the files of d, then each subdirectory in turn
RECURSIVE WalkOrder(_, _, _)
WalkOrder(t, d, order) ==
    LET files == Listing(FilesIn(t, d), order)
        dirs == Listing(DirsIn(t, d), order)
        Below[i \in 0..Len(dirs)] ==
            IF i = 0 THEN <<>>
            ELSE Below[i - 1] \o WalkOrder(t, Append(d, dirs[i]), order)
    IN  [i \in 1..Len(files) |-> Append(d, files[i])] \o Below[Len(dirs)]

\* C17: find_readme returns none exactly when no file under the path has a
\* base name that starts, whatever the case, with "readme"; otherwise it
\* returns the root-relative path of the first such file of the top-down
\* depth-first walk.
C17_FirstReadmeOrNone ==
    pc = "returned" =>
        /\ readme_path = None <=> ReadmeNamed(tree) = {}
        /\ ReadmeNamed(tree) # {} =>
              LET walk == WalkOrder(tree, <<>>, scan_order)
                  first == CHOOSE i \in 1..Len(walk) :
                              /\ walk[i] \in ReadmeNamed(tree)
                              /\ \A k \in 1..(i - 1) : walk[k] \notin ReadmeNamed(tree)
              IN  readme_path = Join(walk[first], "/")

\* C17 happens: find_readme returned a file of a subdirectory, written in
\* capitals, that is neither the first file of the walk nor the only file with
\* such a name.
C17_Witness ==
    /\ pc = "returned"
    /\ readme_path = <<"b","/","d","/","R","E","A","D","M","E",".","r","s","t">>
    /\ Cardinality(ReadmeNamed(tree)) > 1
    /\ PathParts(<<"m","y","_","r","e","a","d","m","e",".","m","d">>) \in tree

\* the first position of the character c in the text l, Len + 1 if none
FirstOf(l, c) ==
    CHOOSE i \in 1..(Len(l) + 1) :
        /\ \A k \in 1..(i - 1) : l[k] # c
        /\ (i = Len(l) + 1 \/ l[i] = c)

\* the text after the last blank of l
LastWord(l) ==
    SubSeq(l, (CHOOSE i \in 0..Len(l) :
                  /\ (i = 0 \/ l[i] = " ")
                  /\ \A k \in (i + 1)..Len(l) : l[k] # " ") + 1, Len(l))

\* a line that is a `def name(...)` or `async def name(...)` declaration
\* ending with a colon
IsDefDeclaration(line) ==
    LET l == Strip(line)
    IN  /\ \/ StartsWith(l, <<"d","e","f"," ">>)
           \/ StartsWith(l, <<"a","s","y","n","c"," ","d","e","f"," ">>)
        /\ EndsWith(l, <<":">>)
        /\ FirstOf(l, "(") < FirstOf(l, ")")
        /\ FirstOf(l, ")") <= Len(l)

\* the identifier of a declaration and the raw text between its parentheses
DeclaredName(line) ==
    LastWord(Strip(SubSeq(Strip(line), 1, FirstOf(Strip(line), "(") - 1)))
DeclaredArguments(line) ==
    SubSeq(Strip(line), FirstOf(Strip(line), "(") + 1, FirstOf(Strip(line), ")") - 1)

\* C18: in a Python file every line that is a def or async def declaration
\* ending with a colon yields exactly one Function, with the identifier as
\* name and the raw text between the parentheses as arguments, and the
\* functions list holds them in the order of the lines.
C18_EveryDefRecorded ==
    pc = "done" =>
        \A g \in PythonFilesRead :
            LET decls == SelectSeq(Split(text[g], "\n"), IsDefDeclaration)
                fns == FileOf(g).functions
            IN  /\ Len(fns) = Len(decls)
                /\ \A k \in 1..Len(decls) :
                      /\ fns[k].name = DeclaredName(decls[k])
                      /\ fns[k].arguments = DeclaredArguments(decls[k])

\* C18, what the code does: the same, for the declarations whose closing
\* parenthesis is directly followed by the colon.
C18_DefWithColonAfterParenthesis ==
    pc = "done" =>
        \A g \in PythonFilesRead :
            LET Plain(line) ==
                    /\ IsDefDeclaration(line)
                    /\ FirstOf(Strip(line), ")") + 1 = FirstOf(Strip(line), ":")
                decls == SelectSeq(Split(text[g], "\n"), Plain)
                fns == FileOf(g).functions
            IN  /\ Len(fns) = Len(decls)
                /\ \A k \in 1..Len(decls) :
                      /\ fns[k].name = DeclaredName(decls[k])
                      /\ fns[k].arguments = DeclaredArguments(decls[k])

\* a line that begins with `import `, and one that begins with `import ` or
\* `from `
IsTsImportLine(line) == StartsWith(line, s_import_sp)
IsPythonImportLine(line) == StartsWith(line, s_import_sp) \/ StartsWith(line, s_from_sp)

\* C19: the imports list of a file an extractor ran on is the sequence of all
\* its lines that begin with `import ` (for Python also `from `), in source
\* order and with duplicates: no such line is skipped, whatever precedes it.
C19_EveryImportLine ==
    pc = "done" =>
        /\ \A g \in PythonFilesRead :
              FileOf(g).imports = SelectSeq(Split(text[g], "\n"), IsPythonImportLine)
        /\ \A g \in TsFilesRead :
              FileOf(g).imports = SelectSeq(Split(text[g], "\n"), IsTsImportLine)

\* C19, what the code does for TS/JS: the import lines except those that
\* directly follow the last line of a JSDoc block.
C19_EveryImportLineNotAfterJsDoc ==
    pc = "done" =>
        \A g \in TsFilesRead :
            (\A i \in 2..Len(Split(text[g], "\n")) :
                IsTsImportLine(Split(text[g], "\n")[i]) =>
                    ~StartsWith(Strip(Split(text[g], "\n")[i - 1]), s_jsdoc_open))
            => FileOf(g).imports = SelectSeq(Split(text[g], "\n"), IsTsImportLine)

\* the lines of the file g that are bare method-style declarations
\* `name(...) {`, by their position
MethodLines(g) ==
    {i \in 1..Len(Split(text[g], "\n")) : MatchTsMethod(Strip(Split(text[g], "\n")[i])).ok}
MethodOf(g, i) == MatchTsMethod(Strip(Split(text[g], "\n")[i]))

\* C20: in a TS/JS file a bare method-style declaration `name(...) {` is
\* captured as a Function for every identifier other than exactly if, for and
\* while.
C20_OnlyControlWordsExcluded ==
    pc = "done" =>
        \A g \in TsFilesRead : \A i \in MethodLines(g) :
            MethodOf(g, i).name \notin ControlWords =>
                \E k \in 1..Len(FileOf(g).functions) :
                    /\ FileOf(g).functions[k].name = MethodOf(g, i).name
                    /\ FileOf(g).functions[k].arguments = MethodOf(g, i).args

\* C20, what the code does: a declaration is captured when its line does not
\* begin with the letters if, for or while.
C20_PrefixExcluded ==
    pc = "done" =>
        \A g \in TsFilesRead : \A i \in MethodLines(g) :
            (\A w \in ControlWords : ~StartsWith(Strip(Split(text[g], "\n")[i]), w)) <=>
                \E k \in 1..Len(FileOf(g).functions) :
                    /\ FileOf(g).functions[k].name = MethodOf(g, i).name
                    /\ FileOf(g).functions[k].arguments = MethodOf(g, i).args

\* a line `name = (...) =>` declared with const, let or var, with or without
\* a leading export and with or without async before the parameters
IsArrowAssignment(line) ==
    LET l == Strip(line)
        decl == IF StartsWith(l, <<"e","x","p","o","r","t"," ">>) THEN From(l, 8) ELSE l
    IN  /\ \E w \in { <<"c","o","n","s","t"," ">>, <<"l","e","t"," ">>, <<"v","a","r"," ">> } :
              StartsWith(decl, w)
        /\ FirstOf(l, "=") < FirstOf(l, "(")
        /\ FirstOf(l, "(") < FirstOf(l, ")")
        /\ EndsWith(l, <<"=",">">>)

\* the name an arrow-function assignment declares and the raw text between
\* its parentheses
ArrowName(line) == LastWord(Strip(SubSeq(Strip(line), 1, FirstOf(Strip(line), "=") - 1)))
ArrowArguments(line) ==
    SubSeq(Strip(line), FirstOf(Strip(line), "(") + 1, FirstOf(Strip(line), ")") - 1)

\* C21: in a TS/JS file every arrow-function assignment, declared with const,
\* let or var, exported or not, async or not, is captured as a Function with
\* its name and the raw text of its parameters.
C21_EveryArrowCaptured ==
    pc = "done" =>
        \A g \in TsFilesRead :
            LET lines == Split(text[g], "\n")
                fns == FileOf(g).functions
            IN  \A i \in 1..Len(lines) :
                    IsArrowAssignment(lines[i]) =>
                        \E k \in 1..Len(fns) :
                            /\ fns[k].name = ArrowName(lines[i])
                            /\ fns[k].arguments = ArrowArguments(lines[i])

\* C21, what the code does: the same for the assignments declared with const.
C21_ConstArrowCaptured ==
    pc = "done" =>
        \A g \in TsFilesRead :
            LET lines == Split(text[g], "\n")
                fns == FileOf(g).functions
            IN  \A i \in 1..Len(lines) :
                    IsArrowAssignment(lines[i]) =>
                        ((\E k \in 1..Len(fns) :
                            /\ fns[k].name = ArrowName(lines[i])
                            /\ fns[k].arguments = ArrowArguments(lines[i]))
                         <=> Count(lines[i], s_const) > 0)

\* the line i of `lines` closes a `/** ... */` block: the first line at or
\* before i that has no block-closing line between it and i opens with /**
ClosesJsDoc(lines, i) ==
    /\ i >= 1 /\ i <= Len(lines)
    /\ EndsWith(Strip(lines[i]), s_comment_close)
    /\ \E o \in 1..i :
          /\ StartsWith(Strip(lines[o]), s_jsdoc_open)
          /\ \A m \in o..(i - 1) : ~EndsWith(Strip(lines[m]), s_comment_close)

\* the text of the `/** ... */` block that line i closes
JsDocText(lines, i) ==
    LET o == CHOOSE o \in 1..i :
                /\ StartsWith(Strip(lines[o]), s_jsdoc_open)
                /\ \A m \in o..(i - 1) : ~EndsWith(Strip(lines[m]), s_comment_close)
                /\ \A p \in 1..(o - 1) :
                      ~(/\ StartsWith(Strip(lines[p]), s_jsdoc_open)
                        /\ \A m \in p..(i - 1) : ~EndsWith(Strip(lines[m]), s_comment_close))
    IN  Strip(Join(SubSeq(lines, o, i), "\n"))

\* the lines of the file g that declare a captured method, and the position
\* in g's functions list of the Function of line i
CapturedLines(g) ==
    {i \in MethodLines(g) :
        \A w \in ControlWords : ~StartsWith(Strip(Split(text[g], "\n")[i]), w)}
CapturedIndex(g, i) == Cardinality({k \in CapturedLines(g) : k <= i})

\* C22: in a TS/JS file a captured function has the text of a `/** ... */`
\* block as description exactly when the block ends on the line just before
\* the declaration, whatever precedes the block (another block included); a
\* function with no such block just before it has no description.
C22_JsDocJustBefore ==
    pc = "done" =>
        \A g \in TsFilesRead :
            LET lines == Split(text[g], "\n")
                fns == FileOf(g).functions
            IN  Len(fns) = Cardinality(CapturedLines(g)) =>
                    \A i \in CapturedLines(g) :
                        fns[CapturedIndex(g, i)].description =
                            (IF ClosesJsDoc(lines, i - 1) THEN JsDocText(lines, i - 1) ELSE None)

\* C22, what the code does: the same when the block is itself the first line
\* of an iteration of the scan, which a block that directly follows the line
\* after another block is not.
C22_JsDocJustBeforeUnlessAfterBlock ==
    pc = "done" =>
        \A g \in TsFilesRead :
            LET lines == Split(text[g], "\n")
                fns == FileOf(g).functions
            IN  (/\ Len(fns) = Cardinality(CapturedLines(g))
                 /\ Cardinality({i \in 1..Len(lines) : StartsWith(Strip(lines[i]), s_jsdoc_open)}) <= 1) =>
                    \A i \in CapturedLines(g) :
                        fns[CapturedIndex(g, i)].description =
                            (IF ClosesJsDoc(lines, i - 1) THEN JsDocText(lines, i - 1) ELSE None)

\* the lines of `lines` from line o on never close what line o opens with the
\* marker q
NeverClosed(lines, o, q) == \A m \in o..Len(lines) : ~EndsWith(Strip(lines[m]), q)

\* the first line of the TS/JS file g that opens a `/**` block no line closes,
\* Len + 1 if there is none
OpenJsDoc(g) ==
    LET lines == Split(text[g], "\n")
    IN  CHOOSE o \in 1..(Len(lines) + 1) :
            /\ o <= Len(lines) =>
                  /\ StartsWith(Strip(lines[o]), s_jsdoc_open)
                  /\ NeverClosed(lines, o, s_comment_close)
            /\ \A p \in 1..(o - 1) :
                  ~(/\ StartsWith(Strip(lines[p]), s_jsdoc_open)
                    /\ NeverClosed(lines, p, s_comment_close))

\* C23: the line scans end. Every iteration of the TS/JS scan moves to a later
\* line and never beyond the line after the end of the file; the iteration
\* that starts on a `/**` block that is never closed takes the rest of the
\* file, records nothing and ends the scan; a Python
\* docstring that is never closed is accumulated to the end of the file, and
\* the function is recorded with that text as description.
C23_ScansEnd ==
    pc = "done" =>
        /\ \A g \in TsFilesRead :
              LET lines == Split(text[g], "\n")
              IN  /\ \A i \in 1..Len(lines) :
                        LET st == TsStep(lines, i, <<>>, <<>>, <<>>, RootPath \o g, RootPath, {})
                        IN  st.ok /\ st.next > i /\ st.next <= Len(lines) + 2
                  /\ OpenJsDoc(g) <= Len(lines) =>
                        LET st == TsStep(lines, OpenJsDoc(g), <<>>, <<>>, <<>>,
                                         RootPath \o g, RootPath, {})
                        IN  st.next > Len(lines) /\ st.functions = <<>>
        /\ \A g \in PythonFilesRead : \A i \in SignatureLines(g) :
              LET lines == Split(text[g], "\n")
                  j == SkipBlankLines(lines, i + 1)
              IN  /\ FunctionIndex(g, i) <= Len(FileOf(g).functions)
                  /\ (/\ j <= Len(lines)
                      /\ OpeningQuote(Strip(lines[j])) # <<>>
                      /\ NeverClosed(lines, j, OpeningQuote(Strip(lines[j])))) =>
                        FileOf(g).functions[FunctionIndex(g, i)].description =
                            Strip(Join(<<From(Strip(lines[j]), 4)>> \o SubSeq(lines, j + 1, Len(lines)),
                                       "\n"))

\* C23 happens: a Repo is returned for a Python file whose function has a
\* docstring that is opened, never closed and followed by one more line.
C23_Witness ==
    /\ pc = "done"
    /\ \E g \in PythonFilesRead : \E i \in SignatureLines(g) :
          /\ i + 2 <= Len(Split(text[g], "\n"))
          /\ OpeningQuote(Split(text[g], "\n")[i + 1]) # <<>>
          /\ NeverClosed(Split(text[g], "\n"), i + 1, s_dq3)
          /\ Len(FileOf(g).functions[FunctionIndex(g, i)].description) > 4

\* C23 happens for TS/JS: a Repo is returned for a file whose second line
\* opens a `/**` block that is never closed, before a method declaration.
C23_WitnessTs ==
    /\ pc = "done"
    /\ \E g \in TsFilesRead :
          /\ OpenJsDoc(g) = 2
          /\ 3 \in MethodLines(g)
          /\ 1 \in CapturedLines(g)

\* the module an import line names: its second word
ImportedModule(line) == Split(line, " ")[2]

\* the dependency C24 gives the import of a non-relative module: when rooted
\* (rooted being the test of the first segment) the first known path of
\* <segments>.py and <segments>/__init__.py, none otherwise
AbsoluteDependency(module, rooted) ==
    IF rooted
    THEN FirstKnown(<< PathStr(WithExtension(Split(module, "."), s_dot_py)),
                       PathStr(Append(Split(module, "."), s_init_py)) >>)
    ELSE <<>>

\* the Python files recorded after a successful read whose lines are all
\* imports of non-relative modules
AbsoluteImporters ==
    {g \in PythonFilesRead :
        \A l \in {Split(text[g], "\n")[k] : k \in 1..Len(Split(text[g], "\n"))} :
            IsPythonImportLine(l) /\ ~StartsWith(ImportedModule(l), s_dot)}

\* the dependencies of the lines from i on
RECURSIVE DependenciesFrom(_, _, _)
DependenciesFrom(lines, i, exact) ==
    IF i > Len(lines) THEN <<>>
    ELSE AbsoluteDependency(
             ImportedModule(lines[i]),
             IF exact THEN Split(ImportedModule(lines[i]), ".")[1] = s_src
             ELSE StartsWith(ImportedModule(lines[i]), s_src))
         \o DependenciesFrom(lines, i + 1, exact)

\* C24: the import of a non-relative module X yields a dependency only when
\* the first dotted segment of X is `src`, and then the first known path of
\* <segments of X>.py and <segments of X>/__init__.py; a module whose first
\* segment is any other name yields none.
C24_FirstSegmentIsSrc ==
    \A g \in AbsoluteImporters :
        FileOf(g).temp_dep_paths = DependenciesFrom(Split(text[g], "\n"), 1, TRUE)

\* what the code does: the test is on the first three characters of X, so a
\* module such as srcgen.b is resolved as well.
C24_NameBeginsWithSrc ==
    \A g \in AbsoluteImporters :
        FileOf(g).temp_dep_paths = DependenciesFrom(Split(text[g], "\n"), 1, FALSE)

\* a file that imports srcgen.b has been recorded in a tree holding srcgen/b.py
C24_Witness ==
    \E g \in AbsoluteImporters :
        /\ \E k \in 1..Len(Split(text[g], "\n")) :
              Split(ImportedModule(Split(text[g], "\n")[k]), ".")[1] = <<"s","r","c","g","e","n">>
        /\ FileOf(g).temp_dep_paths # <<>>

\* the .js files recorded after a successful read
JsFilesRead == {g \in Readable : Recorded(g) /\ StrLower(PathSuffix(g)) = <<".","j","s">>}

\* C25: every included .js file is recorded with imports = [], functions = []
\* and no description, only its line count being populated, although
\* hydrate_files hands the content of a .js file to the TypeScript/JavaScript
\* extractor; a file recorded with an import, a function or a description
\* has the extension .py, .ts or .tsx.
C25_JsNeverHydrated ==
    /\ \A g \in JsFilesRead :
          /\ FileOf(g).imports = <<>>
          /\ FileOf(g).functions = <<>>
          /\ FileOf(g).description = None
          /\ FileOf(g).temp_dep_paths = <<>>
          /\ FileOf(g).number_of_lines = LineCount(text[g])
          /\ hydrate_files(text[g], RootPath \o g, RootPath, all_file_paths)
                = _extract_typescript_info(text[g], RootPath \o g, RootPath, all_file_paths)
    /\ \A g \in Readable :
          (/\ Recorded(g)
           /\ \/ FileOf(g).imports # <<>>
              \/ FileOf(g).functions # <<>>
              \/ FileOf(g).description # None) =>
              PathSuffix(g) \in { <<".","p","y">>, <<".","t","s">>, <<".","t","s","x">> }

\* C25 happens: a .js file has been recorded in which hydrate_files finds an
\* import and a function.
C25_Witness ==
    \E g \in JsFilesRead :
        \E h \in {hydrate_files(text[g], RootPath \o g, RootPath, all_file_paths)} :
            /\ h.ok
            /\ h.imports # <<>>
            /\ h.functions # <<>>
            /\ FileOf(g).number_of_lines > 1

\* the texts of the leading comment of TS/JS lines from line i on, blank lines
\* skipped: of every `//` line and of every `/* ... */` block, a block that
\* goes over several lines giving all its lines up to the closing `*/` when
\* `whole`, its first line only (nothing after it being looked at) otherwise
RECURSIVE LeadingComment(_, _, _, _)
LeadingComment(lines, i, in_block, whole) ==
    LET Inside(s) ==
            IF s = <<>> THEN LeadingComment(lines, i + 1, TRUE, whole)
            ELSE IF EndsWith(s, s_comment_close)
                 THEN <<RStripSet(s, {" ", "*", "/"})>> \o LeadingComment(lines, i + 1, FALSE, whole)
            ELSE <<s>> \o LeadingComment(lines, i + 1, TRUE, whole)
        Outside(s) ==
            IF s = <<>> THEN LeadingComment(lines, i + 1, FALSE, whole)
            ELSE IF StartsWith(s, s_slashes)
                 THEN <<LStripSet(s, {"/", " "})>> \o LeadingComment(lines, i + 1, FALSE, whole)
            ELSE IF StartsWith(s, s_comment_open) /\ EndsWith(s, s_comment_close)
                 THEN <<RStripSet(LStripSet(s, {"/", "*", " "}), {" ", "*", "/"})>>
                      \o LeadingComment(lines, i + 1, FALSE, whole)
            ELSE IF StartsWith(s, s_comment_open)
                 THEN <<LStripSet(s, {"/", "*", " "})>>
                      \o (IF whole THEN LeadingComment(lines, i + 1, TRUE, whole) ELSE <<>>)
            ELSE <<>>
    IN  IF i > Len(lines) THEN <<>>
        ELSE IF in_block THEN Inside(Strip(lines[i])) ELSE Outside(Strip(lines[i]))

\* the description made of these texts, absent when there are none
CommentDescription(lines, whole) ==
    IF LeadingComment(lines, 1, FALSE, whole) = <<>> THEN None
    ELSE Strip(Join(LeadingComment(lines, 1, FALSE, whole), "\n"))

\* the TS/JS files hydrated in which every line that opens a `/*` block
\* without closing it is followed by a line that ends with `*/`
BlocksClosed ==
    {g \in {h \in TsFilesRead : PathSuffix(h) \in hydrated_suffixes} :
        \A o \in 1..Len(Split(text[g], "\n")) :
            (/\ StartsWith(Strip(Split(text[g], "\n")[o]), s_comment_open)
             /\ ~EndsWith(Strip(Split(text[g], "\n")[o]), s_comment_close)) =>
                \E k \in (o + 1)..Len(Split(text[g], "\n")) :
                    EndsWith(Strip(Split(text[g], "\n")[k]), s_comment_close)}

\* C26: the description of a TS/JS file is the text of all its leading `//`
\* lines and of the whole of its leading `/* ... */` block, every line of the
\* block up to the closing `*/`, blank lines skipped and nothing from the
\* first non-blank, non-comment line on; it is absent when the file has no
\* leading comment.
C26_WholeLeadingBlock ==
    \A g \in BlocksClosed :
        FileOf(g).description = CommentDescription(Split(text[g], "\n"), TRUE)

\* what the code does: of a block that goes over several lines the first line
\* only is taken, and the description ends there.
C26_FirstLineOfBlock ==
    \A g \in BlocksClosed :
        FileOf(g).description = CommentDescription(Split(text[g], "\n"), FALSE)

\* a file whose `/*` block closes on a later line has been recorded
C26_Witness ==
    \E g \in BlocksClosed :
        /\ StartsWith(text[g], s_comment_open)
        /\ ~EndsWith(Strip(Split(text[g], "\n")[1]), s_comment_close)
        /\ FileOf(g).description # None

\* the directories of the tree: the non-empty paths that lie above a file
TreeDirectories == UNION {{SubSeq(g, 1, n) : n \in 1..(Len(g) - 1)} : g \in tree}

\* the directories reached from the root through non-excluded directories
ReachableDirectories ==
    {d \in TreeDirectories : \A i \in 1..Len(d) : ~_should_exclude_directory(d[i])}

\* C27: Repo.directories is exactly the set of the base names of the
\* directories reachable from the root through non-excluded directories,
\* the root not being one of them: it holds no excluded name and no name of
\* a directory below an excluded one, and directories of the same name under
\* different parents give one entry.
C27_ReachableDirectoryNames ==
    /\ \A n \in directories : \E d \in ReachableDirectories : n = d[Len(d)]
    /\ pc = "done" =>
          /\ {repo.directories[i] : i \in 1..Len(repo.directories)}
                = {d[Len(d)] : d \in ReachableDirectories}
          /\ Len(repo.directories) = Cardinality({d[Len(d)] : d \in ReachableDirectories})

\* C27 happens: a Repo is returned for a tree with two reachable directories
\* of one name, an excluded directory and a directory below an excluded one.
C27_Witness ==
    /\ pc = "done"
    /\ \E d, e \in ReachableDirectories : d # e /\ d[Len(d)] = e[Len(e)]
    /\ \E d \in TreeDirectories : _should_exclude_directory(d[Len(d)])
    /\ \E d \in TreeDirectories \ ReachableDirectories : ~_should_exclude_directory(d[Len(d)])

\* the fields of the File record
PublicFields(file_obj) ==
    [name |-> file_obj.name, imports |-> file_obj.imports,
     functions |-> file_obj.functions, description |-> file_obj.description,
     number_of_lines |-> file_obj.number_of_lines]

\* the File of the file g when it is read without failure in a tree whose
\* known paths are `known`
FileAmong(g, known) ==
    MakeFile(PathStr(g), LineCount(text[g]),
             Hydrate(text[g], "ok", RootPath \o g, RootPath, known),
             RootPath \o g)

\* the known paths of the trees that differ from this one in the target of
\* one import of the recorded file g being absent
KnownWithout(g) ==
    LET Without(targets) == {all_file_paths \ {targets[k]} : k \in 1..Len(targets)}
    IN  Without(FileOf(g).temp_dep_paths)

EventsOf(event_type) == {i \in 1..Len(events) : events[i].event_type = event_type}

\* the terminal events
TerminalEvents == EventsOf("completed") \cup EventsOf("error")

\* C29: in every run of generate_analysis_stream the first event is `start`,
\* exactly one terminal event (`completed` or `error`) is emitted and it is
\* the last event of the stream: no `error` follows `completed`, whichever
\* step fails.
C29_OneTerminalEventLast ==
    /\ events # <<>> => events[1].event_type = "start"
    /\ \A i \in EventsOf("completed") : \A j \in EventsOf("error") : j < i
    /\ stream_pc = "closed" => TerminalEvents = {Len(events)}

\* what the code does: the stream begins with `start` and ends with a
\* terminal event, and an `error` follows `completed` only when it is the
\* error of the final commit.
C29_ErrorAfterCompletedIsCommit ==
    /\ events # <<>> => events[1].event_type = "start"
    /\ \A i \in EventsOf("completed") : \A j \in EventsOf("error") :
          i < j => events[j].message = "commit"
    /\ stream_pc = "closed" =>
          /\ Len(events) \in TerminalEvents
          /\ Cardinality(EventsOf("completed")) <= 1
          /\ Cardinality(EventsOf("error")) <= 1

\* a stream has closed after the full analysis
C29_Witness ==
    /\ stream_pc = "closed"
    /\ EventsOf("data_model_analysis") # {}
    /\ EventsOf("completed") # {}
    /\ download_outcome = "returned"

\* the request r is one GitHub serves: the repository of the job, a branch
\* it has
Served(r) == r.repo = job.repo_name /\ r.branch \in remote

\* C30: when the download of branch main fails a second download, of branch
\* master, is carried out, and an exception is raised to the caller when
\* that fails too: a download that failed never returns normally.
C30_MasterTriedAndFailureRaised ==
    /\ (/\ download_outcome # "none"
        /\ requested[1].branch = "main"
        /\ ~Served(requested[1])) =>
           /\ Len(requested) = 2
           /\ requested[2].branch = "master"
    /\ download_outcome = "returned" =>
           \E k \in 1..Len(requested) : Served(requested[k])

\* what the code does: one archive at most is requested, and the call
\* returns normally unless a branch other than main failed.
C30_OneRequestOnly ==
    /\ Len(requested) <= 1
    /\ download_outcome = "raised" <=>
           (/\ requested # <<>>
            /\ stream_pc \notin {"download_except"}
            /\ ~Served(requested[1])
            /\ requested[1].branch # "main")

\* the download of main has failed in a repository that has a master branch
C30_Witness ==
    /\ download_outcome = "returned"
    /\ requested[1].branch = "main"
    /\ ~Served(requested[1])
    /\ "master" \in remote
    /\ ParsedRepo(job.github_url) = job.repo_name

====
